---- MODULE Spec2Model ----
(***************************************************************************)
(* A model of the vrp_solver package: the entity model (Store, Vehicle,    *)
(* TimeWindow, Route, Solution), the feasibility kernel (validate_route,   *)
(* can_add_store_to_route, calculate_insertion_cost), the Clarke-Wright    *)
(* constructor, the ALNS metaheuristic and the weekly consolidation        *)
(* planner.                                                                *)
(*                                                                         *)
(* Conventions.  Times are integer minutes; a datetime is the number of    *)
(* minutes since midnight of the first day, so datetime.time() is          *)
(* t % MinutesPerDay.  Store ids are 1..n, the depot id "depot" is Depot    *)
(* and the depot_id a solver was given is the variable depot_id.            *)
(* A vehicle is named by its index in the fleet list (vehicle ids are      *)
(* distinct).  Python's None is NoneVal for an optional number and the     *)
(* empty sequence for an optional object.  A nested dict is a function     *)
(* whose values are functions, so that a missing row and a missing entry   *)
(* are both expressible.                                                   *)
(***************************************************************************)
EXTENDS Integers, Sequences, FiniteSets, TLC

VARIABLES
    \* the solver inputs (BaseSolver.__init__), fixed during a behaviour
    stores,             \* store id -> Store record
    vehicles,           \* sequence of Vehicle records
    distance_matrix,    \* id -> id -> km
    time_matrix,        \* id -> id -> minutes
    day,                \* the day argument of solve
    start_time,         \* the start_time argument of solve
    depot_id,           \* self.depot_id of the solver
    solver,             \* "cw" (ClarkeWrightSolver) or "alns" (ALNSSolver)
    max_iterations,     \* ALNSSolver.__init__: self.max_iterations
    \* the route kernel: one Route object and the last operation's result
    kroute,
    kresult,
    \* a solver object and the solve call in progress
    pc,                 \* where solve is
    solves,             \* the number of solve calls made on the object
    cw_stores,          \* self.stores of the Clarke-Wright solver
    active_routes,      \* active_routes of _merge_routes, its routes and keys
    savings,            \* the sorted savings list
    merge_k,            \* the next entry of the savings list
    solution,           \* <<the Solution solve returned>>
    current_solution,   \* ALNS: <<current_solution>>
    best_solution,      \* ALNS: <<best_solution>>
    iteration,          \* ALNS: iterations done (the temperature is
                        \* temperature_start * cooling_rate ^ iteration)
    iteration_without_improvement,
    destroy_weights,    \* self.destroy_weights
    repair_weights,     \* self.repair_weights
    last_ops,           \* <<the operators and the score of the last
                        \* iteration>>
    \* a MultiDayOptimizer on the inputs, its solver a ClarkeWrightSolver on
    \* the same inputs, and the optimize_week call in progress
    wpc,                \* where optimize_week is
    sorted_stores,      \* the store ids by demand, descending
    assign_k,           \* the next entry of sorted_stores
    day_assignments,    \* day -> the store ids assigned to it, in order
    day_loads,          \* day -> the demand assigned to it
    day_idx,            \* the next entry of WEEKDAYS to solve
    daily_solutions,    \* MultiDaySolution.daily_solutions: day -> <<Solution>>
    consolidation_stats

inputs == <<stores, vehicles, distance_matrix, time_matrix, day, start_time,
            depot_id, solver, max_iterations>>
kvars == <<kroute, kresult>>
cwvars == <<cw_stores, active_routes, savings, merge_k>>
alnsvars == <<current_solution, best_solution, iteration,
              iteration_without_improvement, last_ops>>
wvars == <<destroy_weights, repair_weights>>
svars == <<pc, solves, solution, cwvars, alnsvars, wvars>>
pvars == <<wpc, sorted_stores, assign_k, day_assignments, day_loads, day_idx,
           daily_solutions, consolidation_stats>>
vars == <<inputs, kvars, svars, pvars>>

-----------------------------------------------------------------------------
(* Bounds and program constants *)

NStores == 3
MaxStops == 3
MaxIterations == 2
MaxSolves == 2
MaxValidations == 2
StagnationIterations == 502
TwoOptStops == 4

NoneVal == -1
Depot == 0
MinutesPerDay == 1440
DefaultTravelMinutes == 5
ValidatorServiceTime == 60
AvgSpeedKmh == 40

NoDay == "None"
StoreIds == 1..NStores

-----------------------------------------------------------------------------
(* Generic helpers *)

RECURSIVE SeqSum(_)
SeqSum(s) ==
    IF s = <<>> THEN 0 ELSE Head(s) + SeqSum(Tail(s))

RECURSIVE Flatten(_)
Flatten(ss) ==
    IF ss = <<>> THEN <<>> ELSE Head(ss) \o Flatten(Tail(ss))

SeqToSet(s) == {s[i] : i \in 1..Len(s)}

\* the sequences of n distinct elements of S
RECURSIVE Orderings(_, _)
Orderings(S, n) ==
    IF n = 0 \/ S = {} THEN {<<>>}
    ELSE UNION {{<<x>> \o t : t \in Orderings(S \ {x}, n - 1)} : x \in S}

\* dict.get(i, {}).get(j, d)
Get(m, i, j, d) ==
    IF i \in DOMAIN m
    THEN (IF j \in DOMAIN m[i] THEN m[i][j] ELSE d)
    ELSE d

\* list.insert(position, e) for 0 <= position
InsertAt(seq, position, e) ==
    LET k == IF position > Len(seq) THEN Len(seq) ELSE position
    IN SubSeq(seq, 1, k) \o <<e>> \o SubSeq(seq, k + 1, Len(seq))

RemoveAt(seq, i) ==
    SubSeq(seq, 1, i - 1) \o SubSeq(seq, i + 1, Len(seq))

Abs(x) == IF x < 0 THEN -x ELSE x
Max(a, b) == IF a >= b THEN a ELSE b
Min(a, b) == IF a <= b THEN a ELSE b

-----------------------------------------------------------------------------
(* models/time_window.py, models/store.py, models/vehicle.py *)

contains(tw, t) == tw.earliest <= t /\ t <= tw.latest

conflicts_with(fi, t) == fi.start <= t /\ t <= fi.end

duration_minutes(tw) == tw.latest - tw.earliest

\* is_day_allowed without the look at excluded_days
is_day_allowed_always(s, d) == s \in DOMAIN stores

is_day_allowed(s, d) == d \notin stores[s].excluded_days

\* the day-specific window first, then the untagged one; <<>> is None
get_time_window_for_day(s, d) ==
    LET tws == stores[s].time_windows
        tagged == SelectSeq(tws, LAMBDA tw : tw.day = d)
        general == SelectSeq(tws, LAMBDA tw : tw.day = NoDay)
    IN IF tagged # <<>> THEN <<tagged[1]>>
       ELSE IF general # <<>> THEN <<general[1]>>
       ELSE <<>>

can_serve_store(v, s) ==
    IF s \in vehicles[v].forbidden_store_ids THEN FALSE
    ELSE IF vehicles[v].allowed_store_ids # {} THEN s \in vehicles[v].allowed_store_ids
    ELSE TRUE

can_fit_demand(v, demand_cbm, current_load) ==
    current_load + demand_cbm <= vehicles[v].capacity_cbm

-----------------------------------------------------------------------------
(* models/route.py *)

RouteStop(s, seq) ==
    [store |-> s, arrival_time |-> NoneVal, departure_time |-> NoneVal,
     sequence |-> seq]

Route(v, d) ==
    [vehicle |-> v, stops |-> <<>>, day |-> d,
     total_distance_km |-> 0, total_duration_minutes |-> 0, total_load_cbm |-> 0,
     depot_departure |-> NoneVal, depot_return |-> NoneVal]

Resequence(stops) ==
    [i \in 1..Len(stops) |-> [stops[i] EXCEPT !.sequence = i - 1]]

\* add_stop without the renumbering after list.insert
add_stop_unsequenced(route, s, position) ==
    LET stop == RouteStop(s, Len(route.stops))
        newStops == IF position = NoneVal
                    THEN Append(route.stops, stop)
                    ELSE InsertAt(route.stops, position, stop)
    IN [route EXCEPT !.stops = newStops,
                     !.total_load_cbm = @ + stores[s].demand_cbm]

\* position = NoneVal is add_stop(store) without a position
add_stop(route, s, position) ==
    LET stop == RouteStop(s, Len(route.stops))
        newStops == IF position = NoneVal
                    THEN Append(route.stops, stop)
                    ELSE Resequence(InsertAt(route.stops, position, stop))
    IN [route EXCEPT !.stops = newStops,
                     !.total_load_cbm = @ + stores[s].demand_cbm]

get_store_ids(route) == [i \in 1..Len(route.stops) |-> route.stops[i].store]

\* the index of the first stop of store_id, 0 when there is none
StopIndex(route, store_id) ==
    LET hits == {i \in 1..Len(route.stops) : route.stops[i].store = store_id}
    IN IF hits = {} THEN 0 ELSE CHOOSE i \in hits : \A j \in hits : i <= j

\* [removed |-> the returned flag, route |-> the route afterwards]
remove_stop(route, store_id) ==
    LET i == StopIndex(route, store_id)
    IN IF i = 0 THEN [removed |-> FALSE, route |-> route]
       ELSE [removed |-> TRUE,
             route |-> [route EXCEPT
                 !.total_load_cbm = @ - stores[route.stops[i].store].demand_cbm,
                 !.stops = Resequence(RemoveAt(route.stops, i))]]

\* in percent; exact for the capacities of the model, which divide 100 * load
get_load_utilization(route) ==
    IF vehicles[route.vehicle].capacity_cbm = 0 THEN 0
    ELSE (route.total_load_cbm * 100) \div vehicles[route.vehicle].capacity_cbm

calculate_cost(route) ==
    vehicles[route.vehicle].fixed_cost
        + route.total_distance_km * vehicles[route.vehicle].cost_per_km

-----------------------------------------------------------------------------
(* solvers/base_solver.py *)

_calculate_route_distance(route) ==
    IF route.stops = <<>> THEN 0
    ELSE LET sequence == get_store_ids(route)
             n == Len(sequence)
         IN Get(distance_matrix, depot_id, sequence[1], 0)
            + SeqSum([i \in 1..(n - 1) |->
                        Get(distance_matrix, sequence[i], sequence[i + 1], 0)])
            + Get(distance_matrix, sequence[n], depot_id, 0)

_calculate_route_time(route) ==
    IF route.stops = <<>> \/ DOMAIN time_matrix = {} THEN 0
    ELSE LET sequence == get_store_ids(route)
             n == Len(sequence)
         IN Get(time_matrix, depot_id, sequence[1], 0)
            + SeqSum([i \in 1..(n - 1) |->
                        Get(time_matrix, sequence[i], sequence[i + 1], 0)])
            + Get(time_matrix, sequence[n], depot_id, 0)

\* lines 62-72 of _update_route_metrics, total_distance_km being set:
\* without a time matrix the travel time is (km / 40) * 60, which is exact
\* in minutes for the even distances of the model
UpdateDuration(route) ==
    IF route.stops = <<>> THEN route
    ELSE [route EXCEPT !.total_duration_minutes =
              (IF DOMAIN time_matrix # {}
               THEN _calculate_route_time(route)
               ELSE (route.total_distance_km * 60) \div AvgSpeedKmh)
              + SeqSum([i \in 1..Len(route.stops) |->
                          stores[route.stops[i].store].service_time_minutes])]

_update_route_metrics(route) ==
    CHOOSE updated \in
        {UpdateDuration(measured) : measured \in
            {[r EXCEPT !.total_distance_km = _calculate_route_distance(r)] :
                r \in {route}}} : TRUE

-----------------------------------------------------------------------------
(* constraints/validator.py *)

Violation(kind, s) == [kind |-> kind, store |-> s]

_check_capacity(route) ==
    route.total_load_cbm <= vehicles[route.vehicle].capacity_cbm

\* the travel time the scheduling pass uses from prev to s
TravelMinutes(prev, s) ==
    IF DOMAIN time_matrix # {} /\ prev \in DOMAIN time_matrix
       /\ s \in DOMAIN time_matrix[prev]
    THEN time_matrix[prev][s]
    ELSE DefaultTravelMinutes

\* The loop body of _check_time_windows from the arrival on: the violation
\* is recorded on the arrival as computed, then an early arrival is moved
\* to the opening of the window.  acc is [stops, violations, current_time].
Arrive(acc, stop, arrival_time, time_window) ==
    LET arrival_time_only == arrival_time % MinutesPerDay
        adjusted ==
            IF time_window # <<>> /\ arrival_time_only < time_window[1].earliest
            THEN (arrival_time \div MinutesPerDay) * MinutesPerDay
                     + time_window[1].earliest
            ELSE arrival_time
    IN [stops |-> Append(acc.stops,
                     [stop EXCEPT !.arrival_time = adjusted,
                                  !.departure_time = adjusted + ValidatorServiceTime]),
        violations |->
            IF time_window # <<>> /\ ~contains(time_window[1], arrival_time_only)
            THEN Append(acc.violations, Violation("time_window", stop.store))
            ELSE acc.violations,
        current_time |-> adjusted + ValidatorServiceTime]

\* One pass of the loop of _check_time_windows, for stop i
ScheduleStop(route, i, acc) ==
    Arrive(acc, route.stops[i],
           acc.current_time
               + TravelMinutes(IF i = 1 THEN Depot ELSE route.stops[i - 1].store,
                               route.stops[i].store),
           get_time_window_for_day(route.stops[i].store, route.day))

RECURSIVE ScheduleFrom(_, _, _)
ScheduleFrom(route, i, acc) ==
    IF i > Len(route.stops) THEN acc
    ELSE CHOOSE r \in {ScheduleFrom(route, i + 1, next) :
                          next \in {ScheduleStop(route, i, acc)}} : TRUE

\* the write-back with the duration added to what the route already carries
WriteBackAccumulating(route, acc) ==
    [route |-> [route EXCEPT
         !.stops = acc.stops,
         !.depot_return = acc.current_time,
         !.total_duration_minutes = @ + acc.current_time - route.depot_departure],
     violations |-> acc.violations]

\* lines 110-113: the timestamps, depot_return and the duration written back
WriteBack(route, acc) ==
    [route |-> [route EXCEPT
         !.stops = acc.stops,
         !.depot_return = acc.current_time,
         !.total_duration_minutes = acc.current_time - route.depot_departure],
     violations |-> acc.violations]

\* [route |-> the route with its timestamps written back, violations]
_check_time_windows(route) ==
    IF route.stops = <<>> \/ route.depot_departure = NoneVal
    THEN [route |-> route, violations |-> <<>>]
    ELSE WriteBack(route,
             ScheduleFrom(route, 1, [stops |-> <<>>, violations |-> <<>>,
                                     current_time |-> route.depot_departure]))

_check_forbidden_intervals(route) ==
    Flatten([i \in 1..Len(route.stops) |->
        LET stop == route.stops[i]
            fis == stores[stop.store].forbidden_intervals
            hit == SelectSeq(fis, LAMBDA fi :
                       stop.arrival_time # NoneVal
                       /\ conflicts_with(fi, stop.arrival_time % MinutesPerDay))
        IN [k \in 1..Len(hit) |-> Violation("forbidden", stop.store)]])

_check_fleet_restrictions(route) ==
    LET bad == SelectSeq(route.stops,
                         LAMBDA stop : ~can_serve_store(route.vehicle, stop.store))
    IN [k \in 1..Len(bad) |-> Violation("fleet", bad[k].store)]

_check_day_exclusions(route) ==
    IF route.day = NoDay THEN <<>>
    ELSE LET bad == SelectSeq(route.stops,
                              LAMBDA stop : ~is_day_allowed(stop.store, route.day))
         IN [k \in 1..Len(bad) |-> Violation("day", bad[k].store)]

_check_max_duration(route) ==
    route.total_duration_minutes
        <= vehicles[route.vehicle].max_route_duration_hours * 60

ValidationResult(route, violations) ==
    [is_valid |-> violations = <<>>, violations |-> violations, route |-> route]

\* checks 1 and 3 to 6 of validate_route, tw being the result of check 2
ValidateScheduled(route, tw) ==
    ValidationResult(tw.route,
        (IF ~_check_capacity(route)
         THEN <<Violation("capacity", Depot)>> ELSE <<>>)
        \o tw.violations
        \o _check_forbidden_intervals(tw.route)
        \o _check_fleet_restrictions(tw.route)
        \o _check_day_exclusions(tw.route)
        \o (IF ~_check_max_duration(tw.route)
            THEN <<Violation("duration", Depot)>> ELSE <<>>))

\* [is_valid, violations, route]: the route is scheduled in place
validate_route(route) == ValidateScheduled(route, _check_time_windows(route))

-----------------------------------------------------------------------------
(* models/solution.py *)

\* total_duration_minutes is total_duration_hours * 60
Solution(routes, d, unserved) ==
    [routes |-> routes, day |-> d, unserved_stores |-> unserved,
     total_distance_km |-> 0, total_duration_minutes |-> 0, total_cost |-> 0,
     num_vehicles_used |-> 0, is_feasible |-> TRUE,
     constraint_violations |-> <<>>]

compute_metrics(sol) ==
    LET n == Len(sol.routes)
    IN [sol EXCEPT
          !.num_vehicles_used = n,
          !.total_distance_km =
              SeqSum([i \in 1..n |-> sol.routes[i].total_distance_km]),
          !.total_duration_minutes =
              SeqSum([i \in 1..n |-> sol.routes[i].total_duration_minutes]),
          !.total_cost = SeqSum([i \in 1..n |-> calculate_cost(sol.routes[i])])]

_create_solution(routes, d) ==
    compute_metrics(Solution([i \in 1..Len(routes) |->
                                 _update_route_metrics(routes[i])], d, <<>>))

-----------------------------------------------------------------------------
(* solvers/clarke_wright.py *)

\* the first vehicle of the fleet list that may serve the store and is large
\* enough for it alone; NoneVal when there is none
\* the first vehicle that fits the demand, whatever its store lists say
_find_fitting_vehicle(s) ==
    LET ok == {v \in 1..Len(vehicles) :
                  can_fit_demand(v, stores[s].demand_cbm, 0)}
    IN IF ok = {} THEN NoneVal ELSE CHOOSE v \in ok : \A w \in ok : v <= w

_find_compatible_vehicle(s) ==
    LET ok == {v \in 1..Len(vehicles) :
                  can_serve_store(v, s)
                  /\ can_fit_demand(v, stores[s].demand_cbm, 0)}
    IN IF ok = {} THEN NoneVal ELSE CHOOSE v \in ok : \A w \in ok : v <= w

SeedRoute(s, d, st) ==
    _update_route_metrics(
        add_stop([Route(_find_compatible_vehicle(s), d) EXCEPT
                     !.depot_departure = st], s, NoneVal))

_create_initial_routes(ss, d, st) ==
    LET ok == SelectSeq(ss, LAMBDA s : _find_compatible_vehicle(s) # NoneVal)
    IN [k \in 1..Len(ok) |-> SeedRoute(ok[k], d, st)]

\* Savings(i, j) of appending route j to route i
PairSavings(route_i, route_j) ==
    LET last_i == route_i.stops[Len(route_i.stops)].store
        first_j == route_j.stops[1].store
    IN Get(distance_matrix, depot_id, last_i, 0)
       + Get(distance_matrix, depot_id, first_j, 0)
       - Get(distance_matrix, last_i, first_j, 0)

\* list.sort(key = x[3], reverse = True): descending and stable
RECURSIVE InsertDescending(_, _)
InsertDescending(sorted, e) ==
    IF sorted = <<>> THEN <<e>>
    ELSE IF Head(sorted)[3] >= e[3]
         THEN <<Head(sorted)>> \o InsertDescending(Tail(sorted), e)
         ELSE <<e>> \o sorted

RECURSIVE SortDescending(_, _)
SortDescending(todo, sorted) ==
    IF todo = <<>> THEN sorted
    ELSE SortDescending(Tail(todo), InsertDescending(sorted, Head(todo)))

\* <<i, j, savings>> for i < j, indices into routes (from 1)
_calculate_savings(routes) ==
    LET n == Len(routes)
        row(i) == Flatten([j \in 1..n |->
            IF j > i
               /\ routes[i].vehicle = routes[j].vehicle
               /\ routes[i].stops # <<>> /\ routes[j].stops # <<>>
               /\ PairSavings(routes[i], routes[j]) > 0
            THEN << <<i, j, PairSavings(routes[i], routes[j])>> >>
            ELSE <<>>])
    IN SortDescending(Flatten([i \in 1..n |-> row(i)]), <<>>)

RECURSIVE AddStops(_, _)
AddStops(route, ids) ==
    IF ids = <<>> THEN route
    ELSE CHOOSE r \in {AddStops(next, Tail(ids)) :
                          next \in {add_stop(route, Head(ids), NoneVal)}} : TRUE

_merge_two_routes(route1, route2) ==
    _update_route_metrics(
        AddStops(AddStops([Route(route1.vehicle, route1.day) EXCEPT
                              !.depot_departure = route1.depot_departure],
                          get_store_ids(route1)),
                 get_store_ids(route2)))

_can_merge_routes(route1, route2) ==
    IF route1.vehicle # route2.vehicle THEN FALSE
    ELSE IF route1.total_load_cbm + route2.total_load_cbm
              > vehicles[route1.vehicle].capacity_cbm THEN FALSE
    ELSE validate_route(_merge_two_routes(route1, route2)).is_valid

\* One pass of the loop of _merge_routes over the savings entry e, on the
\* dict active_routes given as [routes, active]: the routes by index and the
\* set of the indices still present.
MergeStep(ar, e) ==
    LET i == e[1]
        j == e[2]
    IN IF i \notin ar.active \/ j \notin ar.active THEN ar
       ELSE IF _can_merge_routes(ar.routes[i], ar.routes[j])
            THEN [routes |-> [ar.routes EXCEPT
                                 ![i] = _merge_two_routes(ar.routes[i], ar.routes[j])],
                  active |-> ar.active \ {j}]
            ELSE ar

RECURSIVE SetToSortedSeq(_)
SetToSortedSeq(S) ==
    IF S = {} THEN <<>>
    ELSE LET m == CHOOSE x \in S : \A y \in S : x <= y
         IN <<m>> \o SetToSortedSeq(S \ {m})

\* list(active_routes.values())
ActiveValues(ar) ==
    LET idx == SetToSortedSeq(ar.active)
    IN [k \in 1..Len(idx) |-> ar.routes[idx[k]]]

RECURSIVE MergeFrom(_, _, _)
MergeFrom(ar, savings_list, k) ==
    IF k > Len(savings_list) THEN ar
    ELSE MergeFrom(MergeStep(ar, savings_list[k]), savings_list, k + 1)

_merge_routes(routes, savings_list) ==
    ActiveValues(MergeFrom([routes |-> routes, active |-> 1..Len(routes)],
                           savings_list, 1))

Reverse(seq) == [i \in 1..Len(seq) |-> seq[Len(seq) + 1 - i]]

TwoOptMaxIterations == 100
TwoOptMinStops == 4

\* the route rebuilt with the segment of stops i..j (counted from 0) reversed
TwoOptCandidate(route, i, j) ==
    LET ids == get_store_ids(route)
        new_ids == SubSeq(ids, 1, i) \o Reverse(SubSeq(ids, i + 1, j + 1))
                       \o SubSeq(ids, j + 2, Len(ids))
    IN _update_route_metrics(
           AddStops([Route(route.vehicle, route.day) EXCEPT
                        !.depot_departure = route.depot_departure], new_ids))

\* the acceptance test without the call of validate_route
TwoOptAcceptsUnvalidated(route, new_route) ==
    new_route.total_distance_km < route.total_distance_km

\* lines 227-231: the candidate is shorter, and valid
TwoOptAccepts(route, new_route) ==
    /\ new_route.total_distance_km < route.total_distance_km
    /\ validate_route(new_route).is_valid

\* the moves (i, j) one pass accepts
TwoOptMoves(route) ==
    {m \in (1..(Len(route.stops) - 3)) \X (2..(Len(route.stops) - 1)) :
        /\ m[2] > m[1]
        /\ \E new_route \in {TwoOptCandidate(route, m[1], m[2])} :
               TwoOptAccepts(route, new_route)}

\* the first move in (i, j) order
FirstMove(moves) ==
    CHOOSE x \in moves : \A y \in moves :
        x[1] < y[1] \/ (x[1] = y[1] /\ x[2] <= y[2])

\* lines 233-235: the stops, with the timestamps of the validation, and the
\* two metrics are taken over
TakeOver(route, new_route) ==
    [route EXCEPT !.stops = new_route.stops,
                  !.total_distance_km = new_route.total_distance_km,
                  !.total_duration_minutes = new_route.total_duration_minutes]

ApplyMove(route, m) ==
    CHOOSE r \in {TakeOver(route, validate_route(new_route).route) :
                      new_route \in {TwoOptCandidate(route, m[1], m[2])}} : TRUE

\* one pass of the while loop: the first accepted move is applied
TwoOptPass(route) == ApplyMove(route, FirstMove(TwoOptMoves(route)))

RECURSIVE TwoOptLoop(_, _)
TwoOptLoop(route, passes) ==
    IF passes >= TwoOptMaxIterations \/ TwoOptMoves(route) = {} THEN route
    ELSE TwoOptLoop(TwoOptPass(route), passes + 1)

_two_opt_improve(route) ==
    IF Len(route.stops) < TwoOptMinStops THEN route ELSE TwoOptLoop(route, 0)

\* lines 58-62: the result of validate_route on route i is recorded
RecordValidation(sol, i, r) ==
    [sol EXCEPT
        !.routes[i] = r.route,
        !.is_feasible = IF r.is_valid THEN @ ELSE FALSE,
        !.constraint_violations = IF r.is_valid THEN @ ELSE @ \o r.violations]

\* the validation loop at the end of solve, from route i on
RECURSIVE ValidateAll(_, _)
ValidateAll(sol, i) ==
    IF i > Len(sol.routes) THEN sol
    ELSE ValidateAll(RecordValidation(sol, i, validate_route(sol.routes[i])),
                     i + 1)

\* lines 54-64 of solve: the solution of the final routes, validated
CWFinish(routes, d) == ValidateAll(_create_solution(routes, d), 1)

\* lines 50-64 of solve, on the merged routes
CWPolished(merged, d) ==
    CWFinish([i \in 1..Len(merged) |-> _two_opt_improve(merged[i])], d)

\* lines 44-48 of solve, on the seed routes
CWFromSeeds(seeds, d) ==
    CWPolished(_merge_routes(seeds, _calculate_savings(seeds)), d)

\* lines 38-42 of solve, on the stores allowed on the day
CWFromAvailable(ss, available_stores, d, st) ==
    IF available_stores = <<>> THEN Solution(<<>>, d, ss)
    ELSE CWFromSeeds(_create_initial_routes(available_stores, d, st), d)

\* ClarkeWrightSolver.solve for a solver constructed with the stores ss
CWSolve(ss, d, st) ==
    CWFromAvailable(ss, SelectSeq(ss, LAMBDA s : is_day_allowed(s, d)), d, st)

-----------------------------------------------------------------------------
(* constraints/checker.py *)

\* can_add_store_to_route without its capacity check (lines 19-21)
can_add_ignoring_capacity(route, s, d) ==
    IF ~can_serve_store(route.vehicle, s) THEN FALSE
    ELSE IF ~is_day_allowed(s, d) THEN FALSE
    ELSE IF get_time_window_for_day(s, d) = <<>> THEN FALSE
    ELSE TRUE

can_add_store_to_route(route, s, d) ==
    IF route.total_load_cbm + stores[s].demand_cbm
           > vehicles[route.vehicle].capacity_cbm THEN FALSE
    ELSE IF ~can_serve_store(route.vehicle, s) THEN FALSE
    ELSE IF ~is_day_allowed(s, d) THEN FALSE
    ELSE IF get_time_window_for_day(s, d) = <<>> THEN FALSE
    ELSE TRUE

\* position counts from 0
calculate_insertion_cost(route, s, position) ==
    LET ids == get_store_ids(route)
        n == Len(ids)
    IN IF n = 0
       THEN Get(distance_matrix, Depot, s, 0) + Get(distance_matrix, s, Depot, 0)
       ELSE IF position = 0
       THEN Get(distance_matrix, Depot, s, 0) + Get(distance_matrix, s, ids[1], 0)
                - Get(distance_matrix, Depot, ids[1], 0)
       ELSE IF position >= n
       THEN Get(distance_matrix, ids[n], s, 0) + Get(distance_matrix, s, Depot, 0)
                - Get(distance_matrix, ids[n], Depot, 0)
       ELSE Get(distance_matrix, ids[position], s, 0)
                + Get(distance_matrix, s, ids[position + 1], 0)
                - Get(distance_matrix, ids[position], ids[position + 1], 0)

-----------------------------------------------------------------------------
(* solvers/alns_solver.py *)

DestroyOps == <<"random", "worst", "shaw", "time_based">>
RepairOps == <<"greedy", "regret2", "regret3">>

InitialWeights(ops) == [o \in SeqToSet(ops) |-> 1]

score_new_best == 10
score_better == 5
score_accepted == 1
score_rejected == 0
max_no_improvement == 500

\* random.random() is u / DrawDen, 0 <= u < DrawDen
DrawDen == 12

\* roulette wheel: r = random.uniform(0, total) = total * random.random();
\* the first operator, in dict order, with r <= cumulative weight
_select_operator(ops, op_weights, u) ==
    LET total == SeqSum([i \in 1..Len(ops) |-> op_weights[ops[i]]])
        cumulative(i) == SeqSum([j \in 1..i |-> op_weights[ops[j]]])
        hits == {i \in 1..Len(ops) : u * total <= cumulative(i) * DrawDen}
    IN IF hits = {} THEN ops[1]
       ELSE ops[CHOOSE i \in hits : \A j \in hits : i <= j]

\* all_stops: the store ids of every stop, route by route
AllStops(routes) ==
    Flatten([i \in 1..Len(routes) |-> get_store_ids(routes[i])])

\* max(1, int(total * 0.3))
NumToRemove(routes) ==
    LET n == (Len(AllStops(routes)) * 3) \div 10
    IN IF n < 1 THEN 1 ELSE n

\* route.remove_stop(id) on the route of the list that holds the stop
RemoveFromRoutes(routes, store_id) ==
    [i \in 1..Len(routes) |->
        IF StopIndex(routes[i], store_id) # 0
        THEN remove_stop(routes[i], store_id).route
        ELSE routes[i]]

\* [routes, removed] after removing the stops of picks in turn
RECURSIVE RemoveInTurn(_, _, _)
RemoveInTurn(routes, picks, removed) ==
    IF picks = <<>> THEN [routes |-> routes, removed |-> removed]
    ELSE RemoveInTurn(RemoveFromRoutes(routes, Head(picks)), Tail(picks),
                      Append(removed, Head(picks)))

\* shuffled is all_stops after random.shuffle
_random_removal(routes, num_to_remove, shuffled) ==
    LET n == IF num_to_remove < Len(shuffled) THEN num_to_remove ELSE Len(shuffled)
    IN RemoveInTurn(routes, SubSeq(shuffled, 1, n), <<>>)

_calculate_removal_saving(route, store_id) ==
    LET stops == get_store_ids(route)
        n == Len(stops)
        idx == StopIndex(route, store_id)
    IN IF idx = 0 THEN 0
       ELSE IF n = 1 THEN Get(distance_matrix, depot_id, store_id, 0) * 2
       ELSE IF idx = 1
       THEN Get(distance_matrix, depot_id, store_id, 0)
                + Get(distance_matrix, store_id, stops[2], 0)
                - Get(distance_matrix, depot_id, stops[2], 0)
       ELSE IF idx = n
       THEN Get(distance_matrix, stops[n - 1], store_id, 0)
                + Get(distance_matrix, store_id, depot_id, 0)
                - Get(distance_matrix, stops[n - 1], depot_id, 0)
       ELSE Get(distance_matrix, stops[idx - 1], store_id, 0)
                + Get(distance_matrix, store_id, stops[idx + 1], 0)
                - Get(distance_matrix, stops[idx - 1], stops[idx + 1], 0)

\* the stop with the largest saving, the first such in route and stop order
WorstStop(routes) ==
    LET all == AllStops(routes)
        saving(k) == _calculate_removal_saving(
                         routes[CHOOSE i \in 1..Len(routes) :
                                    StopIndex(routes[i], all[k]) # 0], all[k])
        best == CHOOSE k \in 1..Len(all) :
                    /\ \A m \in 1..Len(all) : saving(m) <= saving(k)
                    /\ \A m \in 1..(k - 1) : saving(m) < saving(k)
    IN all[best]

RECURSIVE WorstFrom(_, _, _)

\* the stop worst leaves its route and joins the removed ones
RemoveWorst(routes, todo, removed, worst) ==
    WorstFrom(RemoveFromRoutes(routes, worst), todo - 1, Append(removed, worst))

WorstFrom(routes, todo, removed) ==
    IF todo = 0 \/ AllStops(routes) = <<>>
    THEN [routes |-> routes, removed |-> removed]
    ELSE RemoveWorst(routes, todo, removed, WorstStop(routes))

_worst_removal(routes, num_to_remove) == WorstFrom(routes, num_to_remove, <<>>)

\* list.sort(key = x[2]): ascending and stable, on <<id, key>> pairs
RECURSIVE InsertAscending(_, _)
InsertAscending(sorted, e) ==
    IF sorted = <<>> THEN <<e>>
    ELSE IF Head(sorted)[2] <= e[2]
         THEN <<Head(sorted)>> \o InsertAscending(Tail(sorted), e)
         ELSE <<e>> \o sorted

RECURSIVE SortAscending(_, _)
SortAscending(todo, sorted) ==
    IF todo = <<>> THEN sorted
    ELSE SortAscending(Tail(todo), InsertAscending(sorted, Head(todo)))

\* seed_store is the random.choice of all_stops
_shaw_removal(routes, num_to_remove, seed_store) ==
    LET all == AllStops(routes)
        similarities ==
            SortAscending([k \in 1..Len(all) |->
                <<all[k],
                  Get(distance_matrix, seed_store, all[k], 0)
                    + Abs(stores[seed_store].demand_cbm
                            - stores[all[k]].demand_cbm) * 10>>], <<>>)
        n == IF num_to_remove < Len(all) THEN num_to_remove ELSE Len(all)
    IN RemoveInTurn(routes, [k \in 1..n |-> similarities[k][1]], <<>>)

_time_based_removal(routes, num_to_remove, shuffled) ==
    _random_removal(routes, num_to_remove, shuffled)

\* rnd is what the operator draws: the shuffled all_stops (random and
\* time_based), <<the seed>> (shaw), nothing (worst)
_apply_destroy(sol, operator, rnd) ==
    LET routes == sol.routes
        num_to_remove == NumToRemove(routes)
    IN IF AllStops(routes) = <<>> THEN [routes |-> routes, removed |-> <<>>]
       ELSE IF operator = "random" THEN _random_removal(routes, num_to_remove, rnd)
       ELSE IF operator = "worst" THEN _worst_removal(routes, num_to_remove)
       ELSE IF operator = "shaw" THEN _shaw_removal(routes, num_to_remove, rnd[1])
       ELSE _time_based_removal(routes, num_to_remove, rnd)

\* <<cost, route index, position>> of every insertion can_add allows, in
\* route and position order
InsertionOptions(routes, s, d) ==
    Flatten([i \in 1..Len(routes) |->
        IF can_add_store_to_route(routes[i], s, d)
        THEN [p \in 1..(Len(routes[i].stops) + 1) |->
                 <<calculate_insertion_cost(routes[i], s, p - 1), i, p - 1>>]
        ELSE <<>>])

\* the first option of least cost (cost < best_cost, in order)
FirstCheapest(options) ==
    options[CHOOSE k \in 1..Len(options) :
               /\ \A m \in 1..Len(options) : options[k][1] <= options[m][1]
               /\ \A m \in 1..(k - 1) : options[m][1] > options[k][1]]

\* lines 333-347: the new route against the best insertion of options
GreedyChoose(routes, s, d, options, compatible_vehicle) ==
    IF compatible_vehicle # NoneVal
       /\ (options = <<>>
           \/ calculate_insertion_cost(Route(compatible_vehicle, NoDay), s, 0)
                  < FirstCheapest(options)[1])
    THEN Append(routes, add_stop(Route(compatible_vehicle, d), s, NoneVal))
    ELSE IF options # <<>>
    THEN [routes EXCEPT ![FirstCheapest(options)[2]] =
                            add_stop(@, s, FirstCheapest(options)[3])]
    ELSE routes

\* the body of the loop of _greedy_insertion for one store
GreedyInsertOne(routes, s, d) ==
    GreedyChoose(routes, s, d, InsertionOptions(routes, s, d),
                 _find_compatible_vehicle(s))

RECURSIVE _greedy_insertion(_, _, _)
_greedy_insertion(routes, removed, d) ==
    IF removed = <<>> THEN routes
    ELSE _greedy_insertion(GreedyInsertOne(routes, Head(removed), d),
                           Tail(removed), d)

\* list.sort(key = x[1]) of the options: ascending and stable
RECURSIVE InsertByCost(_, _)
InsertByCost(sorted, e) ==
    IF sorted = <<>> THEN <<e>>
    ELSE IF Head(sorted)[1] <= e[1]
         THEN <<Head(sorted)>> \o InsertByCost(Tail(sorted), e)
         ELSE <<e>> \o sorted

RECURSIVE SortByCost(_, _)
SortByCost(todo, sorted) ==
    IF todo = <<>> THEN sorted
    ELSE SortByCost(Tail(todo), InsertByCost(sorted, Head(todo)))

\* the sorted costs list of every uninserted store
SortedCosts(routes, uninserted, d) ==
    [n \in 1..Len(uninserted) |->
        SortByCost(InsertionOptions(routes, uninserted[n], d), <<>>)]

\* costs[k - 1][0] - costs[0][0] of a store with at least k options
Regret(costs, k) == costs[k][1] - costs[1][1]

\* best_store: the first store of largest regret among those with k options
\* or more, as an index of uninserted; 0 is None
RegretPick(costs, k) ==
    LET cand == {n \in DOMAIN costs : Len(costs[n]) >= k}
    IN IF cand = {} THEN 0
       ELSE CHOOSE n \in cand :
                /\ \A m \in cand : Regret(costs[m], k) <= Regret(costs[n], k)
                /\ \A m \in cand : m < n => Regret(costs[m], k) < Regret(costs[n], k)

\* lines 387-402: the picked store goes to its cheapest position; without a
\* pick the first uninserted store opens a route, or is dropped
InsertPicked(routes, uninserted, d, costs, pick, vehicle) ==
    IF pick # 0
    THEN [routes |-> [routes EXCEPT ![costs[pick][1][2]] =
                         add_stop(@, uninserted[pick], costs[pick][1][3])],
          uninserted |-> RemoveAt(uninserted, pick)]
    ELSE IF vehicle # NoneVal
    THEN [routes |-> Append(routes,
                         add_stop(Route(vehicle, d), uninserted[1], NoneVal)),
          uninserted |-> Tail(uninserted)]
    ELSE [routes |-> routes, uninserted |-> Tail(uninserted)]

RegretChoose(routes, uninserted, d, k, costs) ==
    InsertPicked(routes, uninserted, d, costs, RegretPick(costs, k),
                 _find_compatible_vehicle(uninserted[1]))

\* one round of the while loop of _regret_insertion: [routes, uninserted]
RegretRound(r, d, k) ==
    RegretChoose(r.routes, r.uninserted, d, k,
                 SortedCosts(r.routes, r.uninserted, d))

RECURSIVE RegretLoop(_, _, _)
RegretLoop(r, d, k) ==
    IF r.uninserted = <<>> THEN r.routes
    ELSE RegretLoop(RegretRound(r, d, k), d, k)

_regret_insertion(routes, uninserted, d, k) ==
    RegretLoop([routes |-> routes, uninserted |-> uninserted], d, k)

\* lines 302-310: every route stamped and measured, the Solution made
RepairedSolution(routes, d, st) ==
    compute_metrics(Solution(
        [i \in 1..Len(routes) |->
            _update_route_metrics([routes[i] EXCEPT !.depot_departure = st])],
        d, <<>>))

\* lines 293-300, kept being the routes with a stop left
Repair(kept, removed, operator, d) ==
    IF operator = "greedy" THEN _greedy_insertion(kept, removed, d)
    ELSE IF operator = "regret2" THEN _regret_insertion(kept, removed, d, 2)
    ELSE _regret_insertion(kept, removed, d, 3)

\* _apply_repair without line 291, the empty routes going to the operator
_apply_repair_unfiltered(destroyed, operator, d, st) ==
    RepairedSolution(
        Repair(destroyed.routes, destroyed.removed, operator, d), d, st)

_apply_repair(destroyed, operator, d, st) ==
    RepairedSolution(
        Repair(SelectSeq(destroyed.routes, LAMBDA r : r.stops # <<>>),
               destroyed.removed, operator, d),
        d, st)

\* distance + 1000 per vehicle + 500 per point of utilization away from 85
_calculate_cost(sol) ==
    sol.total_distance_km * 1 + sol.num_vehicles_used * 1000
        + SeqSum([i \in 1..Len(sol.routes) |->
                     Abs(get_load_utilization(sol.routes[i]) - 85)]) * 500

-----------------------------------------------------------------------------
(* consolidation/multiday_optimizer.py *)

WEEKDAYS == <<"Mon", "Tue", "Wed", "Thu", "Fri">>
consolidation_threshold == 70
score_load_base == 1000
score_preferred == 500
score_existing_load == 200
score_under_utilized == 300
score_clustering == 400
clustering_km == 10

\* info of _aggregate_weekly_demand for store s; time_windows is a function
\* on the available days that have a window
WeeklyInfo(s) ==
    [total_demand |-> stores[s].demand_cbm,
     available_days |-> SelectSeq(WEEKDAYS, LAMBDA d : is_day_allowed(s, d)),
     time_windows |->
         [d \in {x \in SeqToSet(WEEKDAYS) :
                    is_day_allowed(s, x) /\ get_time_window_for_day(s, x) # <<>>}
             |-> get_time_window_for_day(s, d)[1]],
     preferred_days |-> stores[s].preferred_days]

_aggregate_weekly_demand == [s \in StoreIds |-> WeeklyInfo(s)]

\* sorted(..., key = total_demand, reverse = True) of the store ids: stable
SortedByDemand ==
    LET triples == SortDescending(
            [s \in StoreIds |-> <<s, s, stores[s].demand_cbm>>], <<>>)
    IN [k \in 1..Len(triples) |-> triples[k][1]]

max_capacity ==
    CHOOSE c \in {vehicles[v].capacity_cbm : v \in 1..Len(vehicles)} :
        \A v \in 1..Len(vehicles) : vehicles[v].capacity_cbm <= c

\* max(scores.items(), key = score)[0]: the first day of days, the keys of
\* scores in insertion order, with the highest score
FirstBest(days, scores) ==
    days[CHOOSE k \in 1..Len(days) :
            /\ \A m \in 1..Len(days) : scores[days[m]] <= scores[days[k]]
            /\ \A m \in 1..(k - 1) : scores[days[m]] < scores[days[k]]]

_find_best_single_day(info, loads) ==
    IF info.available_days = <<>> THEN NoDay
    ELSE FirstBest(info.available_days,
             [d \in SeqToSet(info.available_days) |->
                 (score_load_base - loads[d])
                 + (IF d \in info.preferred_days THEN score_preferred ELSE 0)
                 + (IF d \in DOMAIN info.time_windows
                    THEN duration_minutes(info.time_windows[d]) ELSE 0)])

\* the least distance from s to a store of the list is under 10 km; a
\* missing entry counts as infinitely far
ClustersWith(s, same_day_stores) ==
    \E k \in 1..Len(same_day_stores) :
        /\ s \in DOMAIN distance_matrix
        /\ same_day_stores[k] \in DOMAIN distance_matrix[s]
        /\ distance_matrix[s][same_day_stores[k]] < clustering_km

\* the score of a day that passed the projected-load test
ConsolidationScore(s, info, d, loads, assignments) ==
    (IF loads[d] > 0 THEN score_existing_load ELSE 0)
    + (IF loads[d] * 10 < 7 * max_capacity * Len(vehicles)
       THEN score_under_utilized ELSE 0)
    + (IF d \in info.preferred_days THEN score_preferred ELSE 0)
    + (IF ClustersWith(s, assignments[d]) THEN score_clustering ELSE 0)

\* lines 237-241, scored being the days that got a score
BestScoredDay(s, info, scored, loads, assignments) ==
    IF scored # <<>>
    THEN FirstBest(scored,
             [d \in SeqToSet(scored) |->
                 ConsolidationScore(s, info, d, loads, assignments)])
    ELSE IF info.available_days # <<>> THEN info.available_days[1]
    ELSE NoDay

_find_best_consolidation_day(s, info, loads, assignments) ==
    BestScoredDay(s, info,
        SelectSeq(info.available_days, LAMBDA d :
            loads[d] + info.total_demand <= max_capacity * Len(vehicles)),
        loads, assignments)

\* lines 133-151: the day the loop body of _assign_stores_to_days picks
BestDay(s, info, loads, assignments) ==
    IF info.total_demand * 100 >= consolidation_threshold * max_capacity
    THEN _find_best_single_day(info, loads)
    ELSE _find_best_consolidation_day(s, info, loads, assignments)

\* round(num / den * 100, 2) if den > 0 else 0, for 0 <= num, in hundredths
\* of a percent (33.33 is 3333)
RoundedPercent(num, den) ==
    IF den > 0 THEN (2 * num * 10000 + den) \div (2 * den) ELSE 0

_calculate_consolidation_stats(assignments) ==
    [total_stores |-> NStores,
     stores_assigned |->
         SeqSum([k \in 1..Len(WEEKDAYS) |-> Len(assignments[WEEKDAYS[k]])]),
     consolidated_count |->
         Cardinality({s \in StoreIds : Len(WeeklyInfo(s).available_days) > 1}),
     baseline_trips |-> NStores,
     optimized_trips |->
         SeqSum([k \in 1..Len(WEEKDAYS) |-> Len(assignments[WEEKDAYS[k]])]),
     consolidation_rate_percent |->
         RoundedPercent(
             Cardinality({s \in StoreIds : Len(WeeklyInfo(s).available_days) > 1}),
             NStores),
     trip_reduction_percent |->
         RoundedPercent(
             NStores
                 - SeqSum([k \in 1..Len(WEEKDAYS) |-> Len(assignments[WEEKDAYS[k]])]),
             NStores),
     stores_per_day |-> [d \in SeqToSet(WEEKDAYS) |-> Len(assignments[d])]]

-----------------------------------------------------------------------------
(* solvers/ortools_solver.py *)

CPHorizon == 720
CPSlack == 30

\* data["time_matrix"][from][to]: the travel time, or the estimate from the
\* distance, plus the service time of the destination when it is a store
cp_time_matrix(from, to) ==
    (IF DOMAIN time_matrix # {}
     THEN Get(time_matrix, from, to, 0)
     ELSE (Get(distance_matrix, from, to, 0) * 60) \div AvgSpeedKmh)
    + (IF to # depot_id THEN stores[to].service_time_minutes ELSE 0)

\* data["time_windows"] of the node of store s: the range of its cumul
cp_time_window(s, d) ==
    LET tw == get_time_window_for_day(s, d)
    IN IF tw # <<>> THEN <<tw[1].earliest, tw[1].latest>>
       ELSE <<0, CPHorizon>>

\* the cumul of node s may be c: the range of the node and of the dimension
CumulInRange(s, d, c) ==
    /\ cp_time_window(s, d)[1] <= c
    /\ c <= cp_time_window(s, d)[2]
    /\ 0 <= c
    /\ c <= CPHorizon

\* the slack values looked at on the arc that reaches node s at base + slack:
\* none, all of it, and the wait for the opening of the range
SlackChoices(s, d, base) ==
    {k \in 0..CPSlack :
        k \in {0, CPSlack} \/ base + k = cp_time_window(s, d)[1]}

\* the cumuls the first node of a vehicle may take: the start cumul of the
\* vehicle is free in 0..CPHorizon, so every value from the transit up is
\* open; the least and the greatest of the range are looked at
FirstCumuls(s, d) ==
    {c \in {Max(cp_time_matrix(depot_id, s), cp_time_window(s, d)[1]),
            Min(CPHorizon, cp_time_window(s, d)[2])} :
        cp_time_matrix(depot_id, s) <= c /\ CumulInRange(s, d, c)}

\* the sequences of cumuls of the nodes ids, of which the first k have the
\* cumuls done
RECURSIVE CumulsFrom(_, _, _, _)
CumulsFrom(ids, d, k, done) ==
    IF k >= Len(ids) THEN {done}
    ELSE UNION {UNION {CumulsFrom(ids, d, k + 1, Append(done, c)) :
                          c \in {x \in {base + slack :
                                      slack \in SlackChoices(ids[k + 1], d, base)} :
                                    CumulInRange(ids[k + 1], d, x)}} :
                   base \in {done[k] + cp_time_matrix(ids[k], ids[k + 1])}}

\* the assignments of the time dimension for vehicle v visiting ids in this
\* order: [ids, cumuls, end], the end cumul within the range of the depot
VehiclePlans(v, ids, d) ==
    IF ids = <<>> THEN {[ids |-> <<>>, cumuls |-> <<>>, end |-> 0]}
    ELSE IF SeqSum([k \in 1..Len(ids) |-> stores[ids[k]].demand_cbm])
                > vehicles[v].capacity_cbm
    THEN {}
    ELSE {[ids |-> ids, cumuls |-> cs,
           end |-> cs[Len(ids)] + cp_time_matrix(ids[Len(ids)], depot_id)] :
             cs \in {x \in UNION {CumulsFrom(ids, d, 1, <<c>>) :
                                     c \in FirstCumuls(ids[1], d)} :
                        x[Len(ids)] + cp_time_matrix(ids[Len(ids)], depot_id)
                            <= CPHorizon}}

\* the solutions of the routing model over the stores ss: a plan for each
\* vehicle, no store visited twice (a store may be dropped)
RECURSIVE FleetPlans(_, _, _)
FleetPlans(v, left, d) ==
    IF v > Len(vehicles) THEN {<<>>}
    ELSE UNION {{<<plan>> \o rest :
                     plan \in VehiclePlans(v, ids, d),
                     rest \in FleetPlans(v + 1, left \ SeqToSet(ids), d)} :
                   ids \in UNION {Orderings(left, n) :
                                     n \in 0..Cardinality(left)}}

\* lines 215-252: the stops of one vehicle with the timestamps recovered
\* from the cumuls
ExtractStops(plan, st) ==
    [k \in 1..Len(plan.ids) |->
        [store |-> plan.ids[k],
         arrival_time |-> st + plan.cumuls[k],
         departure_time |-> st + plan.cumuls[k]
                               + stores[plan.ids[k]].service_time_minutes,
         sequence |-> k - 1]]

\* lines 255-268: the route of vehicle v
ExtractRoute(v, plan, d, st) ==
    _update_route_metrics(
        [Route(v, d) EXCEPT
            !.stops = ExtractStops(plan, st),
            !.depot_departure = st,
            !.total_load_cbm =
                SeqSum([k \in 1..Len(plan.ids) |-> stores[plan.ids[k]].demand_cbm]),
            !.depot_return = st + plan.end])

_extract_routes(plans, d, st) ==
    LET used == SelectSeq([v \in 1..Len(plans) |-> v],
                          LAMBDA v : plans[v].ids # <<>>)
    IN [k \in 1..Len(used) |-> ExtractRoute(used[k], plans[used[k]], d, st)]

-----------------------------------------------------------------------------
(* The inputs a behaviour starts from *)

TW(e, l, d) == [earliest |-> e, latest |-> l, day |-> d]

Store(demand, tws, fis, excluded, service) ==
    [demand_cbm |-> demand, time_windows |-> tws, forbidden_intervals |-> fis,
     excluded_days |-> excluded, preferred_days |-> {},
     service_time_minutes |-> service]

Vehicle(capacity, allowed, forbidden, hours) ==
    [capacity_cbm |-> capacity, allowed_store_ids |-> allowed,
     forbidden_store_ids |-> forbidden, max_route_duration_hours |-> hours,
     fixed_cost |-> 1000, cost_per_km |-> 2]

AllDay == <<TW(480, 1020, NoDay)>>

Plain == Store(4, AllDay, <<>>, {}, 60)
Big == Store(6, AllDay, <<>>, {}, 60)
Late == Store(4, <<TW(600, 660, NoDay)>>, <<>>, {}, 60)
MonOff == Store(4, AllDay, <<>>, {"Mon"}, 60)
NoWindow == Store(4, <<>>, <<>>, {}, 60)
Huge == Store(12, AllDay, <<>>, {}, 60)
Quick == Store(2, <<TW(480, 1020, NoDay), TW(480, 500, "Tue")>>, <<>>, {}, 30)
Blackout == Store(4, AllDay, <<[start |-> 490, end |-> 500]>>, {}, 60)

Nodes == {Depot} \cup StoreIds

\* every pair of distinct nodes present
FullMatrix(depotLeg, between) ==
    [i \in Nodes |-> [j \in Nodes \ {i} |->
        IF i = Depot \/ j = Depot THEN depotLeg ELSE between]]

NearKm == FullMatrix(10, 2)
NearMin == FullMatrix(15, 5)
FarKm == FullMatrix(10, 26)
FarMin == FullMatrix(15, 130)
\* stores 1 and 2 lie together, store 3 and beyond lie across the depot from
\* store 2 but not from store 1
DetourKm ==
    [i \in Nodes |-> [j \in Nodes \ {i} |->
        IF i = Depot \/ j = Depot THEN 10
        ELSE IF {i, j} = {1, 2} THEN 2
        ELSE IF 1 \in {i, j} THEN 12 ELSE 26]]
NoMatrix == [i \in {} |-> 0]

OneVehicle == <<Vehicle(10, {}, {}, 12)>>
ShortShift == <<Vehicle(10, {}, {}, 1)>>
TwoVehicles == <<Vehicle(10, {}, {1}, 12), Vehicle(20, {}, {}, 12)>>
\* the first vehicle is dedicated to store 1
Dedicated == <<Vehicle(10, {1}, {}, 12), Vehicle(10, {}, {}, 12)>>

SolveDays == {"Mon", "Tue"}
ShiftStart == 480

-----------------------------------------------------------------------------
(* The route kernel: one Route object is built by Route.add_stop and        *)
(* Route.remove_stop in any order, measured by _update_route_metrics and    *)
(* scheduled by validate_route (any number of times); the stops are not     *)
(* changed once the route has been measured or scheduled.                   *)

KernelProfiles == {Plain, Late, Quick}
\* the first store has a blackout period at the time a route from the depot
\* reaches it
KernelBlackouts ==
    {[s \in StoreIds |-> IF s = 1 THEN Blackout ELSE p] : p \in KernelProfiles}
KernelFleets == {OneVehicle, ShortShift}
KernelMatrices == {<<NearKm, NearMin>>, <<FarKm, NoMatrix>>}

\* a solver object after __init__, before any solve
SolverIdle ==
    /\ pc = "idle"
    /\ solves = 0
    /\ cw_stores = <<>>
    /\ active_routes = [routes |-> <<>>, active |-> {}]
    /\ savings = <<>>
    /\ merge_k = 1
    /\ solution = <<>>
    /\ current_solution = <<>>
    /\ best_solution = <<>>
    /\ iteration = 0
    /\ iteration_without_improvement = 0
    /\ destroy_weights = InitialWeights(DestroyOps)
    /\ repair_weights = InitialWeights(RepairOps)
    /\ last_ops = <<>>

\* a MultiDayOptimizer after __init__, before optimize_week
PlannerIdle ==
    /\ wpc = "idle"
    /\ sorted_stores = <<>>
    /\ assign_k = 1
    /\ day_assignments = [d \in SeqToSet(WEEKDAYS) |-> <<>>]
    /\ day_loads = [d \in SeqToSet(WEEKDAYS) |-> 0]
    /\ day_idx = 1
    /\ daily_solutions = [d \in SeqToSet(WEEKDAYS) |-> <<>>]
    /\ consolidation_stats = <<>>

\* what the last operation on the route returned; runs counts the
\* validate_route calls made in a row since the route was last touched
KResult(op, flag, violations) ==
    [op |-> op, flag |-> flag, violations |-> violations, runs |-> 0]

InitKernel ==
    /\ stores \in [StoreIds -> KernelProfiles] \cup KernelBlackouts
    /\ vehicles \in KernelFleets
    /\ \E m \in KernelMatrices : distance_matrix = m[1] /\ time_matrix = m[2]
    /\ day \in SolveDays
    /\ start_time = ShiftStart
    /\ depot_id = Depot
    /\ solver = "cw"
    /\ max_iterations = 0
    /\ kroute = [Route(1, day) EXCEPT !.depot_departure = start_time]
    /\ kresult = KResult("new", TRUE, <<>>)
    /\ SolverIdle
    /\ PlannerIdle

Building == kresult.op \in {"new", "add_stop", "remove_stop"}

KAddStop ==
    /\ Building
    /\ Len(kroute.stops) < MaxStops
    /\ \E s \in StoreIds \ SeqToSet(get_store_ids(kroute)) :
       \E position \in {NoneVal} \cup 0..Len(kroute.stops) :
          /\ kroute' = add_stop(kroute, s, position)
          /\ kresult' = KResult("add_stop", TRUE, <<>>)
    /\ UNCHANGED <<inputs, pvars, svars>>

KRemoveStop ==
    /\ Building
    /\ \E store_id \in StoreIds :
          LET r == remove_stop(kroute, store_id)
          IN /\ kroute' = r.route
             /\ kresult' = KResult("remove_stop", r.removed, <<>>)
    /\ UNCHANGED <<inputs, pvars, svars>>

KUpdateMetrics ==
    /\ kroute' = _update_route_metrics(kroute)
    /\ kresult' = KResult("update_metrics", TRUE, <<>>)
    /\ UNCHANGED <<inputs, pvars, svars>>

KValidate ==
    /\ kresult.runs < MaxValidations
    /\ LET r == validate_route(kroute)
       IN /\ kroute' = r.route
          /\ kresult' = [KResult("validate_route", r.is_valid, r.violations)
                             EXCEPT !.runs = kresult.runs + 1]
    /\ UNCHANGED <<inputs, pvars, svars>>

NextKernel == KAddStop \/ KRemoveStop \/ KUpdateMetrics \/ KValidate

SpecKernel == InitKernel /\ [][NextKernel]_vars

-----------------------------------------------------------------------------
(* The solvers: ClarkeWrightSolver.solve and ALNSSolver.solve, step by step *)

AllStoreIds == [i \in 1..NStores |-> i]

\* the draws of random.random() the operator selections see, as u / DrawDen
DestroyDraws == {2, 5, 8, 11}
RepairDraws == {2, 6, 11}

\* what the destroy operator can draw on the routes: the head of the
\* shuffled all_stops, or the seed stop
DestroyChoices(operator, routes) ==
    LET all == SeqToSet(AllStops(routes))
    IN IF operator = "worst" \/ all = {} THEN {<<>>}
       ELSE IF operator = "shaw" THEN {<<x>> : x \in all}
       ELSE Orderings(all, NumToRemove(routes))

\* lines 32-45 of ClarkeWrightSolver.solve on the stores ss
CWBegin(ss) ==
    LET available_stores == SelectSeq(ss, LAMBDA s : is_day_allowed(s, day))
        seeds == _create_initial_routes(available_stores, day, start_time)
    IN /\ cw_stores' = ss
       /\ IF available_stores = <<>>
          THEN /\ solution' = <<Solution(<<>>, day, ss)>>
               /\ pc' = "done"
               /\ UNCHANGED <<active_routes, savings, merge_k>>
          ELSE /\ active_routes' = [routes |-> seeds, active |-> 1..Len(seeds)]
               /\ savings' = _calculate_savings(seeds)
               /\ merge_k' = 1
               /\ pc' = "cw_merge"
               /\ solution' = <<>>

\* solve is called: the filter of the stores, the seed routes, the savings
SolveStart ==
    /\ pc = "idle"
    /\ solves' = solves + 1
    /\ IF solver = "cw" THEN CWBegin(AllStoreIds)
       ELSE LET available_stores ==
                    SelectSeq(AllStoreIds, LAMBDA s :
                        is_day_allowed(s, day)
                        /\ get_time_window_for_day(s, day) # <<>>)
            IN IF available_stores = <<>>
               THEN /\ solution' = <<Solution(<<>>, day, AllStoreIds)>>
                    /\ pc' = "done"
                    /\ UNCHANGED cwvars
               ELSE CWBegin(available_stores)
    /\ UNCHANGED <<inputs, pvars, kvars, alnsvars, wvars>>

\* one pass of the loop of _merge_routes
CWMerge ==
    /\ pc = "cw_merge"
    /\ merge_k <= Len(savings)
    /\ active_routes' = MergeStep(active_routes, savings[merge_k])
    /\ merge_k' = merge_k + 1
    /\ UNCHANGED <<inputs, pvars, kvars, pc, solves, solution, cw_stores, savings,
                   alnsvars, wvars>>

\* the merge loop is over: the 2-opt polish of every remaining route
CWPolish ==
    /\ pc = "cw_merge"
    /\ merge_k > Len(savings)
    /\ LET routes == ActiveValues(active_routes)
       IN active_routes' =
              [routes |-> [i \in 1..Len(routes) |-> _two_opt_improve(routes[i])],
               active |-> 1..Len(routes)]
    /\ pc' = "cw_finish"
    /\ UNCHANGED <<inputs, pvars, kvars, solves, solution, cw_stores, savings, merge_k,
                   alnsvars, wvars>>

\* the Clarke-Wright solution is made and validated; ClarkeWrightSolver.solve
\* returns it, ALNSSolver.solve makes it its current and best solution
CWReturn ==
    /\ pc = "cw_finish"
    /\ LET sol == CWFinish(active_routes.routes, day)
       IN IF solver = "cw" \/ sol.routes = <<>>
          THEN /\ solution' = <<sol>>
               /\ pc' = "done"
               /\ UNCHANGED alnsvars
          ELSE /\ current_solution' = <<sol>>
               /\ best_solution' = <<sol>>
               /\ iteration' = 0
               /\ iteration_without_improvement' = 0
               /\ last_ops' = <<>>
               /\ pc' = "alns"
               /\ UNCHANGED solution
    /\ UNCHANGED <<inputs, pvars, kvars, solves, cwvars, wvars>>

\* the bookkeeping with best_solution bound to the object that becomes the
\* current solution, instead of to a copy made when a new best is found
BookkeepingAliased(ops, new_solution, new_best, accept, score) ==
    /\ best_solution' = IF accept THEN <<new_solution>> ELSE best_solution
    /\ current_solution' = IF accept THEN <<new_solution>> ELSE current_solution
    /\ iteration_without_improvement' =
           IF new_best THEN 0 ELSE iteration_without_improvement + 1
    /\ destroy_weights' =
           IF accept THEN [destroy_weights EXCEPT ![ops.destroy_op] = @ + score]
           ELSE destroy_weights
    /\ repair_weights' =
           IF accept THEN [repair_weights EXCEPT ![ops.repair_op] = @ + score]
           ELSE repair_weights
    /\ last_ops' = <<[ops EXCEPT !.score = score]>>

\* the bookkeeping with the score added to the weight of every destroy
\* operator
BookkeepingAllRewarded(ops, new_solution, new_best, accept, score) ==
    /\ best_solution' = IF new_best THEN <<new_solution>> ELSE best_solution
    /\ current_solution' = IF accept THEN <<new_solution>> ELSE current_solution
    /\ iteration_without_improvement' =
           IF new_best THEN 0 ELSE iteration_without_improvement + 1
    /\ destroy_weights' =
           IF accept THEN [o \in DOMAIN destroy_weights |-> destroy_weights[o] + score]
           ELSE destroy_weights
    /\ repair_weights' =
           IF accept THEN [repair_weights EXCEPT ![ops.repair_op] = @ + score]
           ELSE repair_weights
    /\ last_ops' = <<[ops EXCEPT !.score = score]>>

\* lines 106-136: the bookkeeping of one iteration
Bookkeeping(ops, new_solution, new_best, accept, score) ==
    /\ best_solution' = IF new_best THEN <<new_solution>> ELSE best_solution
    /\ current_solution' = IF accept THEN <<new_solution>> ELSE current_solution
    /\ iteration_without_improvement' =
           IF new_best THEN 0 ELSE iteration_without_improvement + 1
    /\ destroy_weights' =
           IF accept THEN [destroy_weights EXCEPT ![ops.destroy_op] = @ + score]
           ELSE destroy_weights
    /\ repair_weights' =
           IF accept THEN [repair_weights EXCEPT ![ops.repair_op] = @ + score]
           ELSE repair_weights
    /\ last_ops' = <<[ops EXCEPT !.score = score]>>

\* lines 100-131: the acceptance decision; accept_draw is whether
\* random.random() falls below exp(-delta / temperature), which is 1 for
\* delta = 0 and strictly between 0 and 1 otherwise
Acceptance(ops, new_solution, current_cost, new_cost, best_cost) ==
    IF new_cost < best_cost
    THEN Bookkeeping(ops, new_solution, TRUE, TRUE, score_new_best)
    ELSE IF new_cost < current_cost
    THEN Bookkeeping(ops, new_solution, FALSE, TRUE, score_better)
    ELSE \E accept_draw \in (IF new_cost = current_cost THEN {TRUE} ELSE BOOLEAN) :
            Bookkeeping(ops, new_solution, FALSE, accept_draw,
                        IF accept_draw THEN score_accepted ELSE score_rejected)

\* lines 95-98: the three costs
Decide(ops, new_solution) ==
    Acceptance(ops, new_solution,
               _calculate_cost(current_solution[1]),
               _calculate_cost(new_solution),
               _calculate_cost(best_solution[1]))

\* lines 91-93: destroy and repair, on what the destroy operator draws
DestroyRepair(ops) ==
    \E rnd \in DestroyChoices(ops.destroy_op, current_solution[1].routes) :
        Decide(ops,
               _apply_repair(_apply_destroy(current_solution[1], ops.destroy_op, rnd),
                             ops.repair_op, day, start_time))

\* lines 87-89: the operators the two draws select
SelectedOps(ud, ur) ==
    [destroy_op |-> _select_operator(DestroyOps, destroy_weights, ud),
     repair_op |-> _select_operator(RepairOps, repair_weights, ur),
     score |-> 0]

\* one iteration of the main loop of ALNSSolver.solve
ALNSIterate ==
    /\ pc = "alns"
    /\ iteration < max_iterations
    /\ iteration_without_improvement <= max_no_improvement
    /\ \E ud \in DestroyDraws, ur \in RepairDraws : DestroyRepair(SelectedOps(ud, ur))
    /\ iteration' = iteration + 1
    /\ UNCHANGED <<inputs, pvars, kvars, pc, solves, solution, cwvars>>

\* the loop ends (the range is exhausted, or the early break) and solve
\* returns best_solution
ALNSReturn ==
    /\ pc = "alns"
    /\ \/ iteration >= max_iterations
       \/ iteration_without_improvement > max_no_improvement
    /\ solution' = best_solution
    /\ pc' = "done"
    /\ UNCHANGED <<inputs, pvars, kvars, solves, cwvars, alnsvars, wvars>>

\* solve is called again on the same solver object: the locals of the call
\* are new, the attributes of the object are kept
SolveAgain ==
    /\ pc = "done"
    /\ solves < MaxSolves
    /\ pc' = "idle"
    /\ solution' = <<>>
    /\ cw_stores' = <<>>
    /\ active_routes' = [routes |-> <<>>, active |-> {}]
    /\ savings' = <<>>
    /\ merge_k' = 1
    /\ current_solution' = <<>>
    /\ best_solution' = <<>>
    /\ iteration' = 0
    /\ iteration_without_improvement' = 0
    /\ last_ops' = <<>>
    /\ UNCHANGED <<inputs, pvars, kvars, solves, wvars>>

Uniform(p) == [s \in StoreIds |-> p]
FirstIs(p, q) == [s \in StoreIds |-> IF s = 1 THEN p ELSE q]
LastIs(p, q) == [s \in StoreIds |-> IF s = NStores THEN p ELSE q]

SolverStores ==
    {Uniform(Plain), Uniform(Big), Uniform(Late), Uniform(MonOff)}
    \cup {FirstIs(p, Plain) : p \in {Big, Late, MonOff, NoWindow, Huge, Quick, Blackout}}
    \cup {LastIs(p, Plain) : p \in {Big, Late, MonOff, NoWindow, Huge, Quick}}
SolverFleets == {OneVehicle, ShortShift, TwoVehicles, Dedicated}
SolverMatrices == {<<NearKm, NearMin>>, <<FarKm, FarMin>>, <<DetourKm, NearMin>>}

\* the inputs the metaheuristic is run on: <<stores, vehicles, matrices, day>>
ALNSWorlds ==
    {<<Uniform(Plain), OneVehicle, <<NearKm, NearMin>>, "Mon">>,
     <<Uniform(Plain), OneVehicle, <<FarKm, FarMin>>, "Mon">>,
     <<Uniform(Big), OneVehicle, <<NearKm, NearMin>>, "Mon">>,
     <<FirstIs(Late, Plain), OneVehicle, <<FarKm, FarMin>>, "Tue">>,
     <<Uniform(Plain), ShortShift, <<NearKm, NearMin>>, "Mon">>,
     <<Uniform(Plain), TwoVehicles, <<FarKm, FarMin>>, "Mon">>,
     <<Uniform(Plain), Dedicated, <<FarKm, FarMin>>, "Mon">>,
     <<FirstIs(MonOff, Plain), OneVehicle, <<NearKm, NearMin>>, "Mon">>,
     <<LastIs(NoWindow, Plain), OneVehicle, <<FarKm, FarMin>>, "Tue">>}

KernelIdle ==
    /\ kroute = Route(1, NoDay)
    /\ kresult = KResult("new", TRUE, <<>>)

Init ==
    /\ \/ /\ solver = "cw"
          /\ max_iterations = 0
          /\ stores \in SolverStores
          /\ vehicles \in SolverFleets
          /\ \E m \in SolverMatrices :
                 distance_matrix = m[1] /\ time_matrix = m[2]
          /\ day \in SolveDays
       \/ /\ solver = "alns"
          /\ max_iterations = MaxIterations
          /\ \E w \in ALNSWorlds :
                 /\ stores = w[1]
                 /\ vehicles = w[2]
                 /\ distance_matrix = w[3][1]
                 /\ time_matrix = w[3][2]
                 /\ day = w[4]
    /\ start_time = ShiftStart
    /\ depot_id = Depot
    /\ KernelIdle
    /\ SolverIdle
    /\ PlannerIdle

Next == SolveStart \/ CWMerge \/ CWPolish \/ CWReturn \/ ALNSIterate \/ ALNSReturn

Spec == Init /\ [][Next]_vars

-----------------------------------------------------------------------------
(* The same solver object solves twice *)

InitResolve ==
    /\ solver = "alns"
    /\ max_iterations = 1
    /\ stores = Uniform(Plain)
    /\ vehicles = OneVehicle
    /\ \E m \in SolverMatrices : distance_matrix = m[1] /\ time_matrix = m[2]
    /\ day = "Mon"
    /\ start_time = ShiftStart
    /\ depot_id = Depot
    /\ KernelIdle
    /\ SolverIdle
    /\ PlannerIdle

NextResolve == Next \/ SolveAgain

SpecResolve == InitResolve /\ [][NextResolve]_vars

-----------------------------------------------------------------------------
(* A long run of ALNSSolver.solve in which no iteration finds a new best:    *)
(* two stores on one route, the repair putting back the store the destroy    *)
(* took out, and random.random() returning the same value at every           *)
(* selection.                                                                *)

TwoServed == [s \in StoreIds |-> IF s <= 2 THEN Plain ELSE MonOff]
SteadyDraws == {2}

InitStagnation ==
    /\ solver = "alns"
    /\ max_iterations = StagnationIterations
    /\ stores = TwoServed
    /\ vehicles = OneVehicle
    /\ distance_matrix = NearKm
    /\ time_matrix = NearMin
    /\ day = "Mon"
    /\ start_time = ShiftStart
    /\ depot_id = Depot
    /\ KernelIdle
    /\ SolverIdle
    /\ PlannerIdle

\* one iteration of the main loop, both selections seeing the same draw
ALNSIterateSteady ==
    /\ pc = "alns"
    /\ iteration < max_iterations
    /\ iteration_without_improvement <= max_no_improvement
    /\ \E u \in SteadyDraws : DestroyRepair(SelectedOps(u, u))
    /\ iteration' = iteration + 1
    /\ UNCHANGED <<inputs, pvars, kvars, pc, solves, solution, cwvars>>

NextStagnation ==
    SolveStart \/ CWMerge \/ CWPolish \/ CWReturn \/ ALNSIterateSteady \/ ALNSReturn

SpecStagnation == InitStagnation /\ [][NextStagnation]_vars

-----------------------------------------------------------------------------
(* The solvers on inputs the specification calls malformed *)

Inverted == Store(4, <<TW(660, 600, NoDay)>>, <<>>, {}, 60)
Negative == Store(-2, AllDay, <<>>, {}, 60)
Funday == Store(4, <<TW(480, 1020, NoDay), TW(480, 500, "Funday")>>, <<>>, {}, 60)

\* the matrix without the row and the column of node n
Without(matrix, n) ==
    [i \in DOMAIN matrix \ {n} |->
        [j \in DOMAIN matrix[i] \ {n} |-> matrix[i][j]]]

InputStores == {Uniform(Plain)} \cup {FirstIs(p, Plain) : p \in {Inverted, Negative, Funday}}
InputMatrices ==
    {<<NearKm, NearMin>>, <<Without(NearKm, 1), NearMin>>,
     <<NearKm, Without(NearMin, 1)>>, <<FarKm, NoMatrix>>}

InitInput ==
    /\ \/ solver = "cw" /\ max_iterations = 0
       \/ solver = "alns" /\ max_iterations = 1
    /\ stores \in InputStores
    /\ vehicles = OneVehicle
    /\ \E m \in InputMatrices : distance_matrix = m[1] /\ time_matrix = m[2]
    /\ day = "Mon"
    /\ start_time = ShiftStart
    /\ depot_id = Depot
    /\ KernelIdle
    /\ SolverIdle
    /\ PlannerIdle

SpecInput == InitInput /\ [][Next]_vars

-----------------------------------------------------------------------------
(* The weekly planner: MultiDayOptimizer.optimize_week, step by step *)

\* lines 51-54 and 118-122: the demand is aggregated, the stores are sorted,
\* the assignments and the loads start empty
WeekStart ==
    /\ wpc = "idle"
    /\ sorted_stores' = SortedByDemand
    /\ assign_k' = 1
    /\ wpc' = "assign"
    /\ UNCHANGED <<inputs, kvars, svars, day_assignments, day_loads, day_idx,
                   daily_solutions, consolidation_stats>>

\* lines 139-151: the store goes to the day, if there is one
Assign(s, best_day) ==
    IF best_day = NoDay THEN UNCHANGED <<day_assignments, day_loads>>
    ELSE /\ day_assignments' = [day_assignments EXCEPT ![best_day] = Append(@, s)]
         /\ day_loads' = [day_loads EXCEPT ![best_day] = @ + stores[s].demand_cbm]

\* one pass of the loop of _assign_stores_to_days
WeekAssign ==
    /\ wpc = "assign"
    /\ assign_k <= Len(sorted_stores)
    /\ Assign(sorted_stores[assign_k],
              BestDay(sorted_stores[assign_k],
                      _aggregate_weekly_demand[sorted_stores[assign_k]],
                      day_loads, day_assignments))
    /\ assign_k' = assign_k + 1
    /\ UNCHANGED <<inputs, kvars, svars, wpc, sorted_stores, day_idx,
                   daily_solutions, consolidation_stats>>

\* _assign_stores_to_days returns
WeekAssigned ==
    /\ wpc = "assign"
    /\ assign_k > Len(sorted_stores)
    /\ wpc' = "solve"
    /\ day_idx' = 1
    /\ UNCHANGED <<inputs, kvars, svars, sorted_stores, assign_k, day_assignments,
                   day_loads, daily_solutions, consolidation_stats>>

\* one pass of the loop of optimize_week over WEEKDAYS: a day without
\* assigned stores is skipped, any other is solved by self.solver, a
\* ClarkeWrightSolver constructed with all the stores
WeekSolveDay ==
    /\ wpc = "solve"
    /\ day_idx <= Len(WEEKDAYS)
    /\ daily_solutions' =
           IF day_assignments[WEEKDAYS[day_idx]] = <<>> THEN daily_solutions
           ELSE [daily_solutions EXCEPT ![WEEKDAYS[day_idx]] =
                    <<CWSolve(AllStoreIds, WEEKDAYS[day_idx],
                              start_time + (day_idx - 1) * MinutesPerDay)>>]
    /\ day_idx' = day_idx + 1
    /\ UNCHANGED <<inputs, kvars, svars, wpc, sorted_stores, assign_k,
                   day_assignments, day_loads, consolidation_stats>>

\* the statistics are computed and optimize_week returns
WeekFinish ==
    /\ wpc = "solve"
    /\ day_idx > Len(WEEKDAYS)
    /\ consolidation_stats' = <<_calculate_consolidation_stats(day_assignments)>>
    /\ wpc' = "done"
    /\ UNCHANGED <<inputs, kvars, svars, sorted_stores, assign_k, day_assignments,
                   day_loads, day_idx, daily_solutions>>

Prefers(p, days) == [p EXCEPT !.preferred_days = days]
MonOnly == Store(4, AllDay, <<>>, {"Tue", "Wed", "Thu", "Fri"}, 60)
Never == Store(4, AllDay, <<>>, SeqToSet(WEEKDAYS), 60)
Heavy == Store(8, AllDay, <<>>, {}, 60)

WeekStores ==
    {Uniform(Plain), Uniform(Big), Uniform(Heavy), Uniform(MonOnly)}
    \cup {FirstIs(p, Plain) :
             p \in {MonOff, Heavy, Never, Late, Prefers(Plain, {"Wed"}),
                    Prefers(Heavy, {"Fri"})}}
    \cup {LastIs(p, Plain) : p \in {MonOff, MonOnly, Heavy, Prefers(Plain, {"Tue"})}}
WeekFleets == {OneVehicle, TwoVehicles}

InitWeek ==
    /\ solver = "cw"
    /\ max_iterations = 0
    /\ stores \in WeekStores
    /\ vehicles \in WeekFleets
    /\ \E m \in SolverMatrices : distance_matrix = m[1] /\ time_matrix = m[2]
    /\ day = NoDay
    /\ start_time = ShiftStart
    /\ depot_id = Depot
    /\ KernelIdle
    /\ SolverIdle
    /\ PlannerIdle

NextWeek == WeekStart \/ WeekAssign \/ WeekAssigned \/ WeekSolveDay \/ WeekFinish

SpecWeek == InitWeek /\ [][NextWeek]_vars

-----------------------------------------------------------------------------
(* The 2-opt polish: a route as _merge_routes leaves it, long enough for    *)
(* _two_opt_improve to act, goes through the passes of its while loop.      *)

Small == Store(2, AllDay, <<>>, {}, 60)
Early == Store(2, <<TW(480, 560, NoDay)>>, <<>>, {}, 60)
TwoOptIds == 1..TwoOptStops

\* the depot and the stores on a line, unit apart from one to the next
LineMatrix(unit) ==
    [i \in 0..TwoOptStops |->
        [j \in (0..TwoOptStops) \ {i} |-> unit * Abs(i - j)]]

TwoOptWorlds ==
    {[s \in TwoOptIds |-> Small]}
    \cup {[s \in TwoOptIds |-> IF s = k THEN Early ELSE Small] : k \in TwoOptIds}

\* the route _merge_two_routes makes of the stores ids
MergedRoute(ids) ==
    _update_route_metrics(
        AddStops([Route(1, day) EXCEPT !.depot_departure = start_time], ids))

InitTwoOpt ==
    /\ stores \in TwoOptWorlds
    /\ vehicles = <<Vehicle(20, {}, {}, 12)>>
    /\ distance_matrix = LineMatrix(5)
    /\ time_matrix \in {LineMatrix(5), NoMatrix}
    /\ day = "Mon"
    /\ start_time = ShiftStart
    /\ depot_id = Depot
    /\ solver = "cw"
    /\ max_iterations = 0
    /\ \E n \in (TwoOptMinStops - 1)..TwoOptStops :
       \E ids \in Orderings(TwoOptIds, n) :
       \E merged \in {MergedRoute(ids)} :
          /\ validate_route(merged).is_valid
          /\ kroute = merged
    /\ kresult = KResult("merged", TRUE, <<>>)
    /\ SolverIdle
    /\ PlannerIdle

InTwoOpt == kresult.op \in {"merged", "two_opt_pass"}

\* the while loop goes on: improved is True (or the loop has not begun) and
\* the pass count is under the limit
TwoOptContinues ==
    /\ Len(kroute.stops) >= TwoOptMinStops
    /\ kresult.flag
    /\ kresult.runs < TwoOptMaxIterations

\* one pass of the while loop of _two_opt_improve that accepts a move
TwoOptStep ==
    /\ InTwoOpt
    /\ TwoOptContinues
    /\ TwoOptMoves(kroute) # {}
    /\ kroute' = TwoOptPass(kroute)
    /\ kresult' = [KResult("two_opt_pass", TRUE, <<>>)
                       EXCEPT !.runs = kresult.runs + 1]
    /\ UNCHANGED <<inputs, pvars, svars>>

\* _two_opt_improve returns: the route is too short, the last pass found no
\* move, or the pass limit is reached
TwoOptReturn ==
    /\ InTwoOpt
    /\ ~(TwoOptContinues /\ TwoOptMoves(kroute) # {})
    /\ kresult' = [KResult("two_opt_improve", kresult.op = "two_opt_pass", <<>>)
                       EXCEPT !.runs = kresult.runs]
    /\ UNCHANGED <<inputs, pvars, svars, kroute>>

NextTwoOpt == TwoOptStep \/ TwoOptReturn

SpecTwoOpt == InitTwoOpt /\ [][NextTwoOpt]_vars

-----------------------------------------------------------------------------
(* ORToolsSolver.solve: the routing model is built, the solver returns one   *)
(* of its solutions or none, and the routes are extracted.                   *)

ORToolsStores ==
    {Uniform(Plain), Uniform(Big), FirstIs(Late, Plain), FirstIs(Quick, Plain),
     FirstIs(MonOff, Plain), LastIs(NoWindow, Plain)}

InitORTools ==
    /\ solver = "ortools"
    /\ max_iterations = 0
    /\ \/ stores \in ORToolsStores /\ vehicles = OneVehicle
       \/ stores = Uniform(Big) /\ vehicles = TwoVehicles
    /\ distance_matrix = NearKm
    /\ time_matrix \in {NearMin, NoMatrix}
    /\ day \in SolveDays
    /\ start_time = ShiftStart
    /\ depot_id = Depot
    /\ KernelIdle
    /\ SolverIdle
    /\ PlannerIdle

\* lines 62-70: SolveWithParameters returned no solution
NoSolutionFound(available_stores) ==
    [Solution(<<>>, day, available_stores) EXCEPT
        !.is_feasible = FALSE,
        !.constraint_violations = <<Violation("no_solution", Depot)>>]

ORToolsSolve ==
    /\ pc = "idle"
    /\ solves' = solves + 1
    /\ pc' = "done"
    /\ LET available_stores ==
               SelectSeq(AllStoreIds, LAMBDA s :
                   is_day_allowed(s, day)
                   /\ get_time_window_for_day(s, day) # <<>>)
       IN IF available_stores = <<>>
          THEN solution' = <<Solution(<<>>, day, AllStoreIds)>>
          ELSE \/ \E plans \in FleetPlans(1, SeqToSet(available_stores), day) :
                     solution' = <<_create_solution(
                                      _extract_routes(plans, day, start_time), day)>>
               \/ solution' = <<NoSolutionFound(available_stores)>>
    /\ UNCHANGED <<inputs, pvars, kvars, cwvars, alnsvars, wvars>>

NextORTools == ORToolsSolve

SpecORTools == InitORTools /\ [][NextORTools]_vars

-----------------------------------------------------------------------------
(* One call of _apply_destroy on a current solution of up to TwoOptStops     *)
(* stops.  The tuple it returns is shown in the variables of the merge loop, *)
(* which ALNS does not use: active_routes.routes holds the routes and        *)
(* cw_stores the removed stores.                                             *)

\* the solution whose routes serve ids[1..k] and ids[k+1..] on vehicle 1
SplitSolution(ids, k) ==
    RepairedSolution(
        SelectSeq(<<AddStops(Route(1, day), SubSeq(ids, 1, k)),
                    AddStops(Route(1, day), SubSeq(ids, k + 1, Len(ids)))>>,
                  LAMBDA r : r.stops # <<>>),
        day, start_time)

InitDestroy ==
    /\ solver = "alns"
    /\ max_iterations = 1
    /\ stores = [s \in TwoOptIds |-> Small]
    /\ vehicles = <<Vehicle(20, {}, {}, 12)>>
    /\ distance_matrix = LineMatrix(5)
    /\ time_matrix = LineMatrix(5)
    /\ day = "Mon"
    /\ start_time = ShiftStart
    /\ depot_id = Depot
    /\ pc = "alns"
    /\ solves = 1
    /\ \E n \in 1..TwoOptStops : \E ids \in Orderings(TwoOptIds, n) :
       \E k \in {n \div 2, n} : \E sol \in {SplitSolution(ids, k)} :
           /\ current_solution = <<sol>>
           /\ best_solution = <<sol>>
    /\ cw_stores = <<>>
    /\ active_routes = [routes |-> <<>>, active |-> {}]
    /\ savings = <<>>
    /\ merge_k = 1
    /\ solution = <<>>
    /\ iteration = 0
    /\ iteration_without_improvement = 0
    /\ destroy_weights = InitialWeights(DestroyOps)
    /\ repair_weights = InitialWeights(RepairOps)
    /\ last_ops = <<>>
    /\ KernelIdle
    /\ PlannerIdle

\* lines 87 and 91: the destroy operator is selected and applied
ApplyDestroy ==
    /\ pc = "alns"
    /\ \E ud \in DestroyDraws :
       \E op \in {_select_operator(DestroyOps, destroy_weights, ud)} :
       \E rnd \in DestroyChoices(op, current_solution[1].routes) :
       \E destroyed \in {_apply_destroy(current_solution[1], op, rnd)} :
           /\ active_routes' = [routes |-> destroyed.routes,
                                active |-> 1..Len(destroyed.routes)]
           /\ cw_stores' = destroyed.removed
           /\ last_ops' = <<[destroy_op |-> op, repair_op |-> "", score |-> 0]>>
    /\ pc' = "destroyed"
    /\ UNCHANGED <<inputs, pvars, kvars, solves, solution, savings, merge_k,
                   current_solution, best_solution, iteration,
                   iteration_without_improvement, wvars>>

NextDestroy == ApplyDestroy

SpecDestroy == InitDestroy /\ [][NextDestroy]_vars

-----------------------------------------------------------------------------
(* RouteConstraintChecker.calculate_insertion_cost as the repair operators   *)
(* call it, with the distance matrix of a solver whose depot_id is "depot"   *)
(* or another id: on a measured route, for a store not on it and a position. *)

OtherDepot == NStores + 1

\* the matrix m with the row and the column of the depot under the id depot
Rekeyed(m, depot) ==
    LET old(i) == IF i = depot THEN Depot ELSE i
        ids == (DOMAIN m \ {Depot}) \cup {depot}
    IN [i \in ids |-> [j \in ids \ {i} |-> m[old(i)][old(j)]]]

InsertionResult(s, position, cost) ==
    [op |-> "calculate_insertion_cost", flag |-> TRUE, violations |-> <<>>,
     runs |-> 0, store |-> s, position |-> position, cost |-> cost]

InitInsertion ==
    /\ solver = "alns"
    /\ max_iterations = 0
    /\ stores = Uniform(Plain)
    /\ vehicles = <<Vehicle(20, {}, {}, 12)>>
    /\ depot_id \in {Depot, OtherDepot}
    /\ \E m \in {NearKm, DetourKm} : distance_matrix = Rekeyed(m, depot_id)
    /\ time_matrix = NoMatrix
    /\ day = "Mon"
    /\ start_time = ShiftStart
    /\ \E n \in 0..(NStores - 1) : \E ids \in Orderings(StoreIds, n) :
       \E route \in {MergedRoute(ids)} : kroute = route
    /\ kresult = KResult("new", TRUE, <<>>)
    /\ SolverIdle
    /\ PlannerIdle

\* alns_solver.py:326 and 371: the cost of inserting store s at a position
InsertionCost ==
    /\ kresult.op = "new"
    /\ \E s \in StoreIds \ SeqToSet(get_store_ids(kroute)) :
       \E position \in 0..Len(kroute.stops) :
           kresult' = InsertionResult(s, position,
                          calculate_insertion_cost(kroute, s, position))
    /\ UNCHANGED <<inputs, pvars, svars, kroute>>

NextInsertion == InsertionCost

SpecInsertion == InitInsertion /\ [][NextInsertion]_vars

-----------------------------------------------------------------------------
(* The repair operators of ALNSSolver, one store at a time: the routes a      *)
(* destroy left and the pool of removed stores are drawn, and every step is   *)
(* one pass of the for loop of _greedy_insertion or one round of the while    *)
(* loop of _regret_insertion.  active_routes.routes holds the routes,         *)
(* cw_stores the stores still to insert, last_ops the repair operator,        *)
(* iteration the number of passes made.                                       *)

RepairFleets ==
    {<<Vehicle(20, {}, {}, 12)>>, <<Vehicle(4, {}, {}, 12)>>,
     <<Vehicle(20, {}, {NStores}, 12)>>}

\* the routes that serve rest[1..k] and rest[k+1..], the empty ones left out
KeptRoutes(rest, k) ==
    SelectSeq(<<AddStops(Route(1, "Mon"), SubSeq(rest, 1, k)),
                AddStops(Route(1, "Mon"), SubSeq(rest, k + 1, Len(rest)))>>,
              LAMBDA r : r.stops # <<>>)

InitRepair ==
    /\ solver = "alns"
    /\ max_iterations = 1
    /\ stores = Uniform(Small)
    /\ vehicles \in RepairFleets
    /\ distance_matrix \in {NearKm, FarKm, DetourKm}
    /\ time_matrix = NearMin
    /\ day = "Mon"
    /\ start_time = ShiftStart
    /\ depot_id = Depot
    /\ pc = "destroyed"
    /\ solves = 1
    /\ \E ids \in Orderings(StoreIds, NStores) : \E p \in 1..NStores :
       \E k \in 0..((NStores - p) \div 2) :
       \E routes \in {KeptRoutes(SubSeq(ids, p + 1, NStores), k)} :
           /\ \A n \in (p + 1)..NStores : can_serve_store(1, ids[n])
           /\ cw_stores = SubSeq(ids, 1, p)
           /\ active_routes = [routes |-> routes, active |-> 1..Len(routes)]
    /\ \E op \in SeqToSet(RepairOps) :
           last_ops = <<[destroy_op |-> "", repair_op |-> op, score |-> 0]>>
    /\ current_solution = <<>>
    /\ best_solution = <<>>
    /\ savings = <<>>
    /\ merge_k = 1
    /\ solution = <<>>
    /\ iteration = 0
    /\ iteration_without_improvement = 0
    /\ destroy_weights = InitialWeights(DestroyOps)
    /\ repair_weights = InitialWeights(RepairOps)
    /\ KernelIdle
    /\ PlannerIdle

RepairUnchanged ==
    UNCHANGED <<inputs, pvars, kvars, solves, solution, savings, merge_k,
                best_solution, iteration_without_improvement, wvars, last_ops>>

\* lines 314-347: the body of the for loop for the next removed store
GreedyStep ==
    /\ pc = "destroyed"
    /\ last_ops[1].repair_op = "greedy"
    /\ cw_stores # <<>>
    /\ \E routes \in {GreedyInsertOne(active_routes.routes, Head(cw_stores), day)} :
           active_routes' = [routes |-> routes, active |-> 1..Len(routes)]
    /\ cw_stores' = Tail(cw_stores)
    /\ iteration' = iteration + 1
    /\ UNCHANGED <<pc, current_solution>>
    /\ RepairUnchanged

\* lines 355-402: one round of the while loop
RegretStep ==
    /\ pc = "destroyed"
    /\ last_ops[1].repair_op \in {"regret2", "regret3"}
    /\ cw_stores # <<>>
    /\ \E r \in {RegretRound([routes |-> active_routes.routes,
                              uninserted |-> cw_stores], day,
                             IF last_ops[1].repair_op = "regret2" THEN 2 ELSE 3)} :
           /\ active_routes' = [routes |-> r.routes, active |-> 1..Len(r.routes)]
           /\ cw_stores' = r.uninserted
    /\ iteration' = iteration + 1
    /\ UNCHANGED <<pc, current_solution>>
    /\ RepairUnchanged

\* lines 302-310: the loop is over, the routes are measured and returned
RepairReturn ==
    /\ pc = "destroyed"
    /\ cw_stores = <<>>
    /\ current_solution' =
           <<RepairedSolution(active_routes.routes, day, start_time)>>
    /\ pc' = "repaired"
    /\ UNCHANGED <<cw_stores, active_routes, iteration>>
    /\ RepairUnchanged

NextRepair == GreedyStep \/ RegretStep \/ RepairReturn

SpecRepair == InitRepair /\ [][NextRepair]_vars

-----------------------------------------------------------------------------
(* Properties of the repair operators, under SpecRepair *)

\* the routes of the state that accept store s, as indices
AcceptingRoutes(s) ==
    {i \in 1..Len(active_routes.routes) :
        can_add_store_to_route(active_routes.routes[i], s, day)}

\* the cost of inserting s into route i of the state at position p
CostAt(s, i, p) == calculate_insertion_cost(active_routes.routes[i], s, p)

\* the least insertion cost of s over the routes of the state that accept it
BestCost(s) ==
    LET costs == UNION {{CostAt(s, i, p) :
                            p \in 0..Len(active_routes.routes[i].stops)} :
                        i \in AcceptingRoutes(s)}
    IN CHOOSE c \in costs : \A x \in costs : c <= x

\* store s went into one of the existing routes, at a position of least cost
InsertedAtCheapest(s) ==
    \E i \in AcceptingRoutes(s) :
    \E p \in 0..Len(active_routes.routes[i].stops) :
        /\ CostAt(s, i, p) = BestCost(s)
        /\ active_routes'.routes =
               [active_routes.routes EXCEPT ![i] = add_stop(@, s, p)]

\* store s went alone on a new route of the first compatible vehicle
OpenedRoute(s) ==
    /\ _find_compatible_vehicle(s) # NoneVal
    /\ active_routes'.routes =
           Append(active_routes.routes,
                  add_stop(Route(_find_compatible_vehicle(s), day), s, NoneVal))

\* C23 (greedy repair fallback): a pass of _greedy_insertion puts the store
\* at the cheapest position among the existing routes that accept it; it
\* opens a new route with the first compatible vehicle only when no existing
\* route accepts the store, and drops the store only when no vehicle is
\* compatible either.
C23_GreedyFallback ==
    [][(last_ops[1].repair_op = "greedy" /\ cw_stores' # cw_stores) =>
          LET s == Head(cw_stores)
          IN IF AcceptingRoutes(s) # {} THEN InsertedAtCheapest(s)
             ELSE IF _find_compatible_vehicle(s) # NoneVal THEN OpenedRoute(s)
             ELSE active_routes'.routes = active_routes.routes]_vars

\* the greedy repair is over and every store is alone on a route, on a
\* vehicle that serves every store and has room for all of them together: a
\* route was opened beside a route that accepted the store
C23_OpenedBesideAcceptingRoute ==
    /\ pc = "repaired"
    /\ last_ops[1].repair_op = "greedy"
    /\ vehicles[1].capacity_cbm = 20
    /\ vehicles[1].forbidden_store_ids = {}
    /\ Len(active_routes.routes) = NStores
    /\ \A i \in 1..NStores : Len(active_routes.routes[i].stops) = 1

\* k of the regret operator of the state
RegretK == IF last_ops[1].repair_op = "regret2" THEN 2 ELSE 3

\* the sorted insertion costs of every store of the pool
PoolCosts == SortedCosts(active_routes.routes, cw_stores, day)

\* the stores of the pool with k insertions or more, as indices of the pool
RegretCandidates == {n \in 1..Len(cw_stores) : Len(PoolCosts[n]) >= RegretK}

\* cost[k - 1] - cost[0] of store n of the pool
Gap(n) == PoolCosts[n][RegretK][1] - PoolCosts[n][1][1]

\* store n of the pool comes before store m: a larger gap, then a lower best
\* insertion cost, then the earlier place in the pool
ComesBefore(n, m) ==
    \/ Gap(n) > Gap(m)
    \/ /\ Gap(n) = Gap(m)
       /\ \/ PoolCosts[n][1][1] < PoolCosts[m][1][1]
          \/ PoolCosts[n][1][1] = PoolCosts[m][1][1] /\ n <= m

\* C24 (regret-k selection): a round of _regret_insertion in which some
\* store of the pool has k insertions inserts the store with the largest gap
\* between its k-th best and its best insertion cost, among stores of equal
\* gap the one with the lowest best insertion cost, among those the first
\* of the pool, and inserts it at its best position.
C24_RegretSelection ==
    [][(last_ops[1].repair_op \in {"regret2", "regret3"}
        /\ cw_stores' # cw_stores /\ RegretCandidates # {}) =>
          \E n \in RegretCandidates :
              /\ \A m \in RegretCandidates : ComesBefore(n, m)
              /\ cw_stores' = RemoveAt(cw_stores, n)
              /\ active_routes'.routes =
                     [active_routes.routes EXCEPT ![PoolCosts[n][1][2]] =
                         add_stop(@, cw_stores[n], PoolCosts[n][1][3])]]_vars

\* one round of regret-2 took store 3, whose insertions beside store 1 cost
\* 12 both, from a pool in which store 2, whose insertions cost 2 both, came
\* second
C24_CostlierStoreFirst ==
    /\ pc = "destroyed"
    /\ last_ops[1].repair_op = "regret2"
    /\ distance_matrix = DetourKm
    /\ iteration = 1
    /\ cw_stores = <<2>>
    /\ Len(active_routes.routes) = 1
    /\ SeqToSet(get_store_ids(active_routes.routes[1])) = {1, 3}

-----------------------------------------------------------------------------
(* Properties of the route kernel, under SpecKernel *)

Validated == kresult.op = "validate_route"

\* the arrival the scheduling pass computes for stop i before any wait:
\* the previous departure (the depot departure for the first stop) plus the
\* travel time
ComputedArrival(route, i) ==
    (IF i = 1 THEN route.depot_departure ELSE route.stops[i - 1].departure_time)
        + TravelMinutes(IF i = 1 THEN Depot ELSE route.stops[i - 1].store,
                        route.stops[i].store)

ArrivesEarly(route, i) ==
    LET tw == get_time_window_for_day(route.stops[i].store, route.day)
    IN tw # <<>> /\ ComputedArrival(route, i) % MinutesPerDay < tw[1].earliest

OpeningOf(route, i) ==
    (ComputedArrival(route, i) \div MinutesPerDay) * MinutesPerDay
        + get_time_window_for_day(route.stops[i].store, route.day)[1].earliest

\* C3 (wait-for-window): after validate_route, a stop whose computed arrival
\* is earlier than the opening of its applicable window has its arrival set
\* to the opening, its departure to the opening plus the service time of the
\* scheduling pass, and no time-window violation is emitted for it.
C3_WaitForWindow ==
    Validated =>
        \A i \in 1..Len(kroute.stops) :
            ArrivesEarly(kroute, i) =>
                /\ kroute.stops[i].arrival_time = OpeningOf(kroute, i)
                /\ kroute.stops[i].departure_time
                       = OpeningOf(kroute, i) + ValidatorServiceTime
                /\ Violation("time_window", kroute.stops[i].store)
                       \notin SeqToSet(kresult.violations)

\* the part of C3 the scheduling pass does keep: the clamp and the departure
C3_ClampOnly ==
    Validated =>
        \A i \in 1..Len(kroute.stops) :
            ArrivesEarly(kroute, i) =>
                /\ kroute.stops[i].arrival_time = OpeningOf(kroute, i)
                /\ kroute.stops[i].departure_time
                       = OpeningOf(kroute, i) + ValidatorServiceTime

\* a validated route with an early first stop, waited for and reported
C3_EarlyStopReported ==
    /\ Validated
    /\ kroute.stops # <<>>
    /\ ArrivesEarly(kroute, 1)
    /\ kroute.stops[1].arrival_time = OpeningOf(kroute, 1)
    /\ Violation("time_window", kroute.stops[1].store)
           \in SeqToSet(kresult.violations)

\* C4 (depot return and duration): after validate_route on a route with a
\* stop and a depot departure, depot_return is the departure of the last
\* stop plus the travel time from the last stop to the depot, and
\* total_duration_minutes is depot_return minus depot_departure.
C4_DepotReturn ==
    (Validated /\ kroute.stops # <<>> /\ kroute.depot_departure # NoneVal) =>
        LET last == kroute.stops[Len(kroute.stops)]
        IN /\ kroute.depot_return
                  = last.departure_time + TravelMinutes(last.store, Depot)
           /\ kroute.total_duration_minutes
                  = kroute.depot_return - kroute.depot_departure

\* scenario S1 validated: one stop 15 minutes from the depot, served for 60
\* minutes from 08:15, and a duration of 75 minutes
C4_OneStopSeventyFive ==
    /\ Validated
    /\ Len(kroute.stops) = 1
    /\ time_matrix = NearMin
    /\ kroute.stops[1].arrival_time = ShiftStart + 15
    /\ kroute.stops[1].departure_time = ShiftStart + 75
    /\ kroute.depot_return = ShiftStart + 75
    /\ kroute.total_duration_minutes = 75

\* C11 (idempotent scheduling): a validate_route run on a route that was
\* just validated, with the same matrices and the route untouched in between,
\* leaves every stop's arrival and departure, depot_return and
\* total_duration_minutes as they are and returns the same flag and the same
\* violation list.
C11_IdempotentScheduling ==
    [][(Validated /\ kresult'.op = "validate_route") =>
           /\ kroute' = kroute
           /\ kresult'.flag = kresult.flag
           /\ kresult'.violations = kresult.violations]_vars

\* a route of two stops validated twice in a row, the first stop having
\* waited for its window and the run reporting a violation
C11_ValidatedTwice ==
    /\ Validated
    /\ kresult.runs = 2
    /\ Len(kroute.stops) = 2
    /\ kroute.stops[1].arrival_time # ComputedArrival(kroute, 1)
    /\ kresult.violations # <<>>

\* C27 (route load bookkeeping): whatever add_stop, with or without a
\* position, and remove_stop have done to a route, its total_load_cbm is the
\* sum of the demands of its stops and every stop's sequence is its index;
\* remove_stop returns True with the stop gone, or returns False, for an id
\* that is not on the route, and leaves the route as it was.
C27_LoadBookkeeping ==
    /\ [](kroute.total_load_cbm =
              SeqSum([k \in 1..Len(kroute.stops) |->
                         stores[kroute.stops[k].store].demand_cbm]))
    /\ [](\A k \in 1..Len(kroute.stops) : kroute.stops[k].sequence = k - 1)
    /\ [][kresult'.op = "remove_stop" =>
             IF kresult'.flag
             THEN /\ Len(kroute'.stops) = Len(kroute.stops) - 1
                  /\ SeqToSet(get_store_ids(kroute'))
                         \subseteq SeqToSet(get_store_ids(kroute))
             ELSE /\ kroute' = kroute
                  /\ SeqToSet(get_store_ids(kroute)) # StoreIds]_vars

\* a route that holds two stops, the store with the higher id first, after
\* a remove_stop that found nothing to remove
C27_AbsentNotRemoved ==
    /\ kresult.op = "remove_stop"
    /\ ~kresult.flag
    /\ Len(kroute.stops) = 2
    /\ kroute.stops[1].store > kroute.stops[2].store
    /\ kroute.total_load_cbm > 0

\* C19 (service time in scheduling): after validate_route every stop's
\* departure is its arrival, clamped or not, plus the service_time_minutes of
\* its own store.
C19_OwnServiceTime ==
    Validated =>
        \A k \in 1..Len(kroute.stops) :
            kroute.stops[k].departure_time =
                kroute.stops[k].arrival_time
                    + stores[kroute.stops[k].store].service_time_minutes

\* validate_route has scheduled a route whose first stop is a store with a
\* service time of 30 minutes, and the stop after it
C19_HalfHourStoreScheduled ==
    /\ Validated
    /\ Len(kroute.stops) = 2
    /\ stores[kroute.stops[1].store].service_time_minutes = 30
    /\ kroute.stops[1].departure_time = kroute.stops[1].arrival_time + 60
    /\ kroute.stops[2].arrival_time # NoneVal

-----------------------------------------------------------------------------
(* Properties of the solvers, under Spec *)

Returned == pc = "done"

\* the routes of the solutions of the state: returned, current and best
SolutionRoutes ==
    UNION {SeqToSet(sol.routes) :
              sol \in SeqToSet(solution) \cup SeqToSet(current_solution)
                          \cup SeqToSet(best_solution)}

DemandOfStops(route) ==
    SeqSum([i \in 1..Len(route.stops) |-> stores[route.stops[i].store].demand_cbm])

RouteLoadOk(route) ==
    /\ DemandOfStops(route) = route.total_load_cbm
    /\ route.total_load_cbm <= vehicles[route.vehicle].capacity_cbm

\* C1 (capacity invariant): every route of the returned Solution, and of the
\* current and best solutions of every iteration and of the merge loop, has
\* total_load_cbm equal to the sum of the demands of its stops and at most
\* the capacity of its vehicle.
C1_CapacityInvariant ==
    /\ \A route \in SolutionRoutes : RouteLoadOk(route)
    /\ \A i \in active_routes.active : RouteLoadOk(active_routes.routes[i])

\* a returned ALNS solution with a route a repair inserted a stop into, full
\* to the point that no further store of the instance fits
C1_RepairedFullRoute ==
    /\ Returned
    /\ solver = "alns"
    /\ \E route \in SeqToSet(solution[1].routes) :
          /\ Len(route.stops) >= 2
          /\ \E i \in 1..Len(route.stops) : route.stops[i].arrival_time = NoneVal
          /\ \A s \in StoreIds :
                 route.total_load_cbm + stores[s].demand_cbm
                     > vehicles[route.vehicle].capacity_cbm

\* how many stops of the routes are stops of store s
TimesServed(routes, s) ==
    SeqSum([i \in 1..Len(routes) |->
               Cardinality({k \in 1..Len(routes[i].stops) :
                               routes[i].stops[k].store = s})])

\* C5 (served/unserved partition): in the Solution ClarkeWrightSolver.solve
\* returns, every store given to the solver is a stop of exactly one route
\* and not listed in unserved_stores, or a stop of no route and listed.
C5_Partition ==
    (Returned /\ solver = "cw") =>
        \A s \in StoreIds :
            \/ /\ TimesServed(solution[1].routes, s) = 1
               /\ s \notin SeqToSet(solution[1].unserved_stores)
            \/ /\ TimesServed(solution[1].routes, s) = 0
               /\ s \in SeqToSet(solution[1].unserved_stores)

\* a returned Clarke-Wright solution with a store excluded on the day that
\* is in no route and not listed either, the other stores being served
C5_ExcludedNotListed ==
    /\ Returned
    /\ solver = "cw"
    /\ solution[1].routes # <<>>
    /\ \E s \in StoreIds :
          /\ ~is_day_allowed(s, day)
          /\ TimesServed(solution[1].routes, s) = 0
          /\ s \notin SeqToSet(solution[1].unserved_stores)

\* C6 (window invariant): in a returned Solution with is_feasible, every
\* stop of every route has an arrival, and its time of day lies within the
\* applicable window of its store for the day of the solution.
C6_WindowWhenFeasible ==
    (Returned /\ solution[1].is_feasible) =>
        \A route \in SeqToSet(solution[1].routes) :
            \A i \in 1..Len(route.stops) :
                LET tw == get_time_window_for_day(route.stops[i].store,
                                                  solution[1].day)
                IN /\ route.stops[i].arrival_time # NoneVal
                   /\ tw # <<>> =>
                          contains(tw[1], route.stops[i].arrival_time % MinutesPerDay)

\* a returned ALNS solution, feasible by its flag, with a stop that was
\* never scheduled
C6_FeasibleUnscheduled ==
    /\ Returned
    /\ solver = "alns"
    /\ solution[1].is_feasible
    /\ \E route \in SeqToSet(solution[1].routes) :
          \E i \in 1..Len(route.stops) : route.stops[i].arrival_time = NoneVal

\* C7 (duration cap): every route of a returned Solution has
\* total_duration_minutes at most max_route_duration_hours * 60 of its
\* vehicle.
C7_DurationCap ==
    Returned =>
        \A route \in SeqToSet(solution[1].routes) :
            route.total_duration_minutes
                <= vehicles[route.vehicle].max_route_duration_hours * 60

\* a returned Clarke-Wright solution that keeps a single-stop seed route
\* longer than the shift of its vehicle
C7_LongSeedRouteKept ==
    /\ Returned
    /\ solver = "cw"
    /\ \E route \in SeqToSet(solution[1].routes) :
          /\ Len(route.stops) = 1
          /\ route.total_duration_minutes
                 > vehicles[route.vehicle].max_route_duration_hours * 60

RoutesOfVehicle(routes, v) == {i \in 1..Len(routes) : routes[i].vehicle = v}

\* scenario S2: every store of demand 6, one vehicle of capacity 10
ScenarioS2 == stores = Uniform(Big) /\ vehicles = OneVehicle

\* C9 (vehicle count): in scenario S2 ClarkeWrightSolver.solve returns 2
\* routes, or 1 route and 1 unserved store; and no Solution it returns uses
\* a vehicle of the fleet for more than one route.
C9_VehicleCount ==
    (Returned /\ solver = "cw") =>
        /\ ScenarioS2 =>
               \/ Len(solution[1].routes) = 2
               \/ /\ Len(solution[1].routes) = 1
                  /\ Len(solution[1].unserved_stores) = 1
        /\ \A v \in 1..Len(vehicles) :
               Cardinality(RoutesOfVehicle(solution[1].routes, v)) <= 1

\* scenario S2 solved: one route per store, all on the one vehicle, and no
\* store unserved
C9_ThreeRoutesOneVehicle ==
    /\ Returned
    /\ solver = "cw"
    /\ ScenarioS2
    /\ Len(solution[1].routes) = NStores
    /\ Cardinality(RoutesOfVehicle(solution[1].routes, 1)) = NStores
    /\ solution[1].unserved_stores = <<>>
    /\ solution[1].num_vehicles_used = NStores

-----------------------------------------------------------------------------
(* Properties of a solver object that solves twice, under SpecResolve *)

\* C8 (reproducibility): every invocation of ALNSSolver.solve starts with
\* every destroy and repair operator weight equal to 1, so that the same
\* draws select the same operators in every invocation, on a fresh solver
\* object or on one that has solved before.
C8_FreshWeights ==
    pc = "idle" =>
        /\ destroy_weights = InitialWeights(DestroyOps)
        /\ repair_weights = InitialWeights(RepairOps)

\* a second invocation on the same solver object has entered its loop with
\* weights under which a draw selects another destroy operator than it
\* selects on a fresh solver
C8_SameDrawOtherOperator ==
    /\ solves = 2
    /\ pc = "alns"
    /\ iteration = 0
    /\ \E u \in DestroyDraws :
          _select_operator(DestroyOps, destroy_weights, u)
              # _select_operator(DestroyOps, InitialWeights(DestroyOps), u)

\* C12 (ALNS best-monotonicity): over the iterations of ALNSSolver.solve the
\* cost of best_solution never increases, best_solution changes only to a
\* solution of strictly lower cost (so nothing done to the current solution
\* alters it), and solve returns best_solution.
C12_BestMonotone ==
    [][pc = "alns" =>
          /\ pc' = "alns" =>
                 /\ _calculate_cost(best_solution'[1])
                        <= _calculate_cost(best_solution[1])
                 /\ best_solution' # best_solution =>
                        _calculate_cost(best_solution'[1])
                            < _calculate_cost(best_solution[1])
          /\ pc' = "done" => solution' = best_solution]_vars

\* after the second iteration: the best solution came out of a repair (a
\* stop of it was never scheduled), and the iteration accepted a current
\* solution that costs more than the best one
C12_WorseAcceptedBestKept ==
    /\ pc = "alns"
    /\ iteration = 2
    /\ last_ops[1].score = score_accepted
    /\ _calculate_cost(current_solution[1]) > _calculate_cost(best_solution[1])
    /\ \E i \in 1..Len(best_solution[1].routes) :
          \E k \in 1..Len(best_solution[1].routes[i].stops) :
             best_solution[1].routes[i].stops[k].arrival_time = NoneVal

\* C22 (ALNS weight adaptation): an iteration adds its score to the weight
\* of the destroy operator and of the repair operator it chose and leaves
\* every other weight as it was; the score is 10 when a new best was found,
\* 5 when the candidate only beat the current solution, 1 when a candidate
\* no better than the current one was accepted and 0 when it was rejected;
\* no weight is ever below 1.
C22_WeightAdaptation ==
    /\ [](\A o \in DOMAIN destroy_weights : destroy_weights[o] >= 1)
    /\ [](\A o \in DOMAIN repair_weights : repair_weights[o] >= 1)
    /\ [][iteration' = iteration + 1 =>
             /\ destroy_weights' =
                    [destroy_weights EXCEPT
                        ![last_ops'[1].destroy_op] = @ + last_ops'[1].score]
             /\ repair_weights' =
                    [repair_weights EXCEPT
                        ![last_ops'[1].repair_op] = @ + last_ops'[1].score]
             /\ last_ops'[1].score
                    = IF _calculate_cost(best_solution'[1])
                            < _calculate_cost(best_solution[1])
                      THEN score_new_best
                      ELSE IF _calculate_cost(current_solution'[1])
                                < _calculate_cost(current_solution[1])
                      THEN score_better
                      ELSE IF last_ops'[1].score # score_rejected
                      THEN score_accepted
                      ELSE score_rejected
             /\ last_ops'[1].score = score_rejected =>
                    current_solution' = current_solution]_vars

\* two iterations have been rewarded, one of them with the score of an
\* accepted candidate that beat nothing, and the weights of the operators
\* never chosen are still 1
C22_TwoRewards ==
    /\ pc = "alns"
    /\ iteration = 2
    /\ last_ops[1].score = score_accepted
    /\ destroy_weights[last_ops[1].destroy_op] > 1 + score_accepted
    /\ \E o \in DOMAIN destroy_weights : destroy_weights[o] = 1

\* the routes of the state: those of the solutions and of the merge loop
RoutesOfState ==
    SolutionRoutes \cup {active_routes.routes[i] : i \in active_routes.active}

\* the candidates an iteration can build from the current solution, over
\* every destroy operator, what it draws, and every repair operator
Candidates ==
    UNION {{_apply_repair(destroyed, repair_op, day, start_time) :
                repair_op \in SeqToSet(RepairOps)} :
           destroyed \in
               UNION {{_apply_destroy(current_solution[1], destroy_op, rnd) :
                          rnd \in DestroyChoices(destroy_op,
                                                 current_solution[1].routes)} :
                      destroy_op \in SeqToSet(DestroyOps)}}

\* sol serves the stores ref serves, each of them once
SameCustomers(sol, ref) ==
    \A s \in StoreIds :
        /\ TimesServed(sol.routes, s) = TimesServed(ref.routes, s)
        /\ TimesServed(sol.routes, s) <= 1

\* C28 (ALNS customer conservation): every candidate a destroy followed by
\* a repair builds serves exactly the stores of the current solution, each
\* once, and has no empty route; the Solution ALNSSolver.solve returns
\* serves exactly the stores of the initial Clarke-Wright solution.
C28_CustomerConservation ==
    /\ pc = "alns" =>
           \A candidate \in Candidates :
               /\ SameCustomers(candidate, current_solution[1])
               /\ \A i \in 1..Len(candidate.routes) :
                      candidate.routes[i].stops # <<>>
    /\ (Returned /\ solver = "alns") =>
           SameCustomers(solution[1], CWFinish(active_routes.routes, day))

\* ALNSSolver.solve returned, after its iterations, a solution that serves
\* the three stores on other routes than the initial solution did
C28_RearrangedAllServed ==
    /\ Returned
    /\ solver = "alns"
    /\ iteration = MaxIterations
    /\ \A s \in StoreIds : TimesServed(solution[1].routes, s) = 1
    /\ Len(solution[1].routes) # Len(CWFinish(active_routes.routes, day).routes)

\* C14 (day-exclusion invariant): every route of a Solution returned for
\* day d, and of every solution and merge state on the way, is tagged d and
\* has no stop of a store that lists d in excluded_days.
C14_DayExclusion ==
    \A route \in RoutesOfState :
        /\ route.day = day
        /\ \A k \in 1..Len(route.stops) :
               day \notin stores[route.stops[k].store].excluded_days

\* ALNSSolver.solve returned after its iterations on a day that one store
\* excludes, the two other stores being served
C14_ExcludedLeftOut ==
    /\ Returned
    /\ solver = "alns"
    /\ iteration = MaxIterations
    /\ \E s \in StoreIds :
          /\ day \in stores[s].excluded_days
          /\ \A t \in StoreIds \ {s} : TimesServed(solution[1].routes, t) = 1

\* C15 (fleet-compatibility invariant): in every route of a returned
\* Solution, and of every solution and merge state on the way, no stop's
\* store is in the forbidden set of the route's vehicle, and every stop's
\* store is in the allowed set when that set is not empty.
C15_FleetCompatibility ==
    \A route \in RoutesOfState :
        \A k \in 1..Len(route.stops) :
            /\ route.stops[k].store
                   \notin vehicles[route.vehicle].forbidden_store_ids
            /\ vehicles[route.vehicle].allowed_store_ids # {} =>
                   route.stops[k].store
                       \in vehicles[route.vehicle].allowed_store_ids

\* a returned ALNS solution in which a repair put a second store on the
\* route of the store the first vehicle must not serve
C15_RepairedOnSecondVehicle ==
    /\ Returned
    /\ solver = "alns"
    /\ \E route \in SeqToSet(solution[1].routes) :
          /\ Len(route.stops) >= 2
          /\ \E k \in 1..Len(route.stops) :
                 /\ route.stops[k].store \in vehicles[1].forbidden_store_ids
                 /\ route.vehicle # 1
          /\ \E k \in 1..Len(route.stops) : route.stops[k].arrival_time = NoneVal

\* a pass of the loop of _merge_routes that merges two routes
MergeApplied ==
    /\ pc = "cw_merge"
    /\ pc' = "cw_merge"
    /\ active_routes' # active_routes

\* the savings entries are in descending order and every one is positive, as
\* _calculate_savings computed them on the seed routes
SavingsRecorded ==
    /\ \A k \in 1..Len(savings) : savings[k][3] > 0
    /\ \A k \in 1..(Len(savings) - 1) : savings[k][3] >= savings[k + 1][3]
    /\ [][MergeApplied => merge_k' = merge_k + 1]_vars

\* C17 (savings positivity): every merge the loop of _merge_routes applies
\* joins two routes i and j for which d(depot, tail_i) + d(depot, head_j)
\* - d(tail_i, head_j) is strictly positive, and the pairs are processed in
\* descending order of savings.
C17_SavingsPositive ==
    [][MergeApplied =>
          /\ PairSavings(active_routes.routes[savings[merge_k][1]],
                         active_routes.routes[savings[merge_k][2]]) > 0
          /\ \A k \in 1..(merge_k - 1) :
                 savings[k][3] >= savings[merge_k][3]]_vars

\* the merge loop has appended route 3 to a route that ends in store 2, on
\* the strength of the savings of stores 1 and 3
C17_MergedAfterStore2 ==
    /\ pc = "cw_merge"
    /\ distance_matrix = DetourKm
    /\ \E i \in active_routes.active :
           /\ get_store_ids(active_routes.routes[i]) = <<1, 2, 3>>
           /\ active_routes.routes[i].total_distance_km = 48
    /\ savings = << <<1, 2, 18>>, <<1, 3, 8>> >>

\* the summed distance of the routes still active in ar
ActiveDistance(ar) ==
    LET idx == SetToSortedSeq(ar.active)
    IN SeqSum([k \in 1..Len(idx) |-> _calculate_route_distance(ar.routes[idx[k]])])

\* C29 (merge gain matches recorded savings): every merge the loop of
\* _merge_routes applies lowers the summed distance of the active routes by
\* exactly the savings recorded for the pair in the savings list, also when
\* route i has absorbed other routes before; the summed distance never
\* increases during the merge loop.
C29_MergeGain ==
    [][MergeApplied =>
          /\ ActiveDistance(active_routes')
                 = ActiveDistance(active_routes) - savings[merge_k][3]
          /\ ActiveDistance(active_routes') <= ActiveDistance(active_routes)]_vars

\* the merge loop has gone through both savings entries and left one route
\* of 48 km, the second merge having been applied on recorded savings of 8 km
\* to routes of 22 km and 20 km
C29_LongerAfterMerge ==
    /\ pc = "cw_merge"
    /\ merge_k = 3
    /\ Len(savings) = 2
    /\ savings[2][3] = 8
    /\ Cardinality(active_routes.active) = 1
    /\ ActiveDistance(active_routes) = 48

-----------------------------------------------------------------------------
(* Properties of the insertion cost, under SpecInsertion *)

\* C26 (insertion cost): calculate_insertion_cost returns the distance of
\* the tour with the store inserted at the position less the distance of the
\* tour before, both as _calculate_route_distance computes them from the
\* matrix of the solver (for an empty route the two depot legs), and leaves
\* the route as it was.
C26_InsertionCost ==
    [][kresult'.op = "calculate_insertion_cost" =>
          /\ kroute' = kroute
          /\ kresult'.cost =
                 _calculate_route_distance(
                     add_stop(kroute, kresult'.store, kresult'.position))
                 - _calculate_route_distance(kroute)]_vars

\* the cost of the first store of a route has been asked for by a solver
\* whose depot is not called "depot": it is 0, the tour is 20 km
C26_EmptyRouteOtherDepot ==
    /\ kresult.op = "calculate_insertion_cost"
    /\ depot_id # Depot
    /\ kroute.stops = <<>>
    /\ kresult.cost = 0
    /\ _calculate_route_distance(add_stop(kroute, kresult.store, 0)) = 20

-----------------------------------------------------------------------------
(* Properties of the destroy step, under SpecDestroy *)

\* the least integer not below 3 * n / 10
CeilOfRate(n) == (3 * n + 9) \div 10

\* C21 (ALNS destroy size): a destroy step removes exactly the ceiling of
\* 0.3 times the number of stops of the current solution, from a copy: the
\* routes returned have that many stops fewer, and the current solution is
\* as it was.
C21_DestroySize ==
    [][pc' = "destroyed" =>
          /\ Len(cw_stores') = CeilOfRate(Len(AllStops(current_solution[1].routes)))
          /\ Len(AllStops(active_routes'.routes)) + Len(cw_stores')
                 = Len(AllStops(current_solution[1].routes))
          /\ current_solution' = current_solution]_vars

\* a destroy step on a solution of four stops has removed one store
C21_OneOfFourRemoved ==
    /\ pc = "destroyed"
    /\ Len(AllStops(current_solution[1].routes)) = 4
    /\ Len(cw_stores) = 1
    /\ Len(AllStops(active_routes.routes)) = 3

-----------------------------------------------------------------------------
(* Properties of a long ALNS run, under SpecStagnation *)

\* C20 (ALNS stagnation and iteration bound): the main loop does at most
\* max_iterations iterations and stops as soon as 500 consecutive iterations
\* have passed without a new best solution, so that the count of such
\* iterations never reaches 501.
C20_StagnationCap ==
    /\ iteration <= max_iterations
    /\ iteration_without_improvement <= max_no_improvement

\* solve has returned after the early break, having done 501 iterations
\* of the 502 allowed, none of which found a new best
C20_BrokeAfter501 ==
    /\ Returned
    /\ iteration = max_no_improvement + 1
    /\ iteration_without_improvement = max_no_improvement + 1
    /\ iteration < max_iterations


\* C18 (CP solver time windows): every stop extracted from a CP solution has
\* an arrival timestamp, the shift start plus the cumul of the time
\* dimension, whose time of day lies within the window of its store for the
\* day.
C18_CPTimeWindows ==
    Returned =>
        \A route \in SeqToSet(solution[1].routes) :
        \A k \in 1..Len(route.stops) :
            LET tw == get_time_window_for_day(route.stops[k].store, day)
            IN contains(tw[1], route.stops[k].arrival_time % MinutesPerDay)

\* the CP solver has returned a route that serves the store with the window
\* 10:00 to 11:00, the cumul of its node within 600..660
C18_LateStoreServed ==
    /\ Returned
    /\ stores = FirstIs(Late, Plain)
    /\ \E route \in SeqToSet(solution[1].routes) :
       \E k \in 1..Len(route.stops) :
           /\ route.stops[k].store = 1
           /\ route.stops[k].arrival_time - start_time \in 600..660
           /\ route.stops[k].arrival_time >= 1080

-----------------------------------------------------------------------------
(* Properties of the 2-opt polish, under SpecTwoOpt *)

\* the stepped loop and the function agree: what _two_opt_improve makes of
\* the route is the same before and after a pass, and is the route itself
\* once the loop has returned
TwoOptAgrees ==
    [][/\ kresult'.op = "two_opt_pass" =>
              _two_opt_improve(kroute').stops = _two_opt_improve(kroute).stops
       /\ kresult'.op = "two_opt_improve" =>
              _two_opt_improve(kroute).stops = kroute'.stops]_vars

\* C16 (2-opt monotonicity): a pass of _two_opt_improve that accepts a
\* reversal leaves the route with a distance no longer than before, with
\* the same stores (a permutation of the stops), and valid under
\* validate_route; the return leaves the route as the last pass left it.
C16_TwoOptMonotone ==
    [][/\ kresult'.op = "two_opt_pass" =>
              /\ kroute'.total_distance_km <= kroute.total_distance_km
              /\ kroute'.total_distance_km = _calculate_route_distance(kroute')
              /\ Len(kroute'.stops) = Len(kroute.stops)
              /\ SeqToSet(get_store_ids(kroute')) = SeqToSet(get_store_ids(kroute))
              /\ validate_route(kroute').is_valid
       /\ kresult'.op = "two_opt_improve" => kroute' = kroute]_vars

\* _two_opt_improve has returned a route of four stops it reordered, in a
\* world where a store's window rules out some orders
C16_Improved ==
    /\ kresult.op = "two_opt_improve"
    /\ kresult.flag
    /\ Len(kroute.stops) = 4
    /\ \E s \in DOMAIN stores : stores[s] = Early
    /\ get_store_ids(kroute) # <<1, 2, 3, 4>>

\* the reversal of the stops i..j (counted from 0) of the route of the state
\* strictly lowers its distance and passes validate_route
ImprovingReversal(i, j) ==
    \E new_route \in {TwoOptCandidate(kroute, i, j)} :
        /\ new_route.total_distance_km < kroute.total_distance_km
        /\ validate_route(new_route).is_valid

\* C25 (2-opt local optimality): when _two_opt_improve has returned after
\* fewer than 100 passes, no segment [i..j] of the route with
\* 0 <= i < j < number of stops has a reversal that strictly lowers the
\* distance and passes validate_route, whatever the length of the route.
C25_TwoOptLocalOptimum ==
    (kresult.op = "two_opt_improve" /\ kresult.runs < TwoOptMaxIterations) =>
        \A i \in 0..(Len(kroute.stops) - 2) :
        \A j \in (i + 1)..(Len(kroute.stops) - 1) : ~ImprovingReversal(i, j)

\* _two_opt_improve has returned a route of four stops of which the first
\* two, exchanged, give a shorter valid route
C25_HeadSegmentLeft ==
    /\ kresult.op = "two_opt_improve"
    /\ kresult.runs < TwoOptMaxIterations
    /\ Len(kroute.stops) = TwoOptMinStops
    /\ ImprovingReversal(0, 1)

-----------------------------------------------------------------------------
(* Properties of the solvers on malformed inputs, under SpecInput *)

InvertedWindow ==
    \E s \in StoreIds : \E k \in 1..Len(stores[s].time_windows) :
        stores[s].time_windows[k].earliest > stores[s].time_windows[k].latest

NegativeDemand == \E s \in StoreIds : stores[s].demand_cbm < 0

UnknownWeekday ==
    \E s \in StoreIds : \E k \in 1..Len(stores[s].time_windows) :
        stores[s].time_windows[k].day \notin SeqToSet(WEEKDAYS) \cup {NoDay}

MissingEntry(matrix) ==
    \E i \in Nodes : \E j \in Nodes \ {i} :
        i \notin DOMAIN matrix \/ j \notin DOMAIN matrix[i]

\* the input errors of the specification; the time matrix is optional
MalformedInput ==
    \/ InvertedWindow
    \/ NegativeDemand
    \/ UnknownWeekday
    \/ MissingEntry(distance_matrix)
    \/ (DOMAIN time_matrix # {} /\ MissingEntry(time_matrix))

\* C10 (input errors rejected): on an input with an inverted window, a
\* negative demand, an unknown weekday tag or a missing matrix entry between
\* nodes of the instance, the solve does not proceed and no Solution is
\* returned.
C10_InputErrorsRejected ==
    MalformedInput => (pc = "idle" /\ solution = <<>>)

\* a Solution returned on a distance matrix without any entry for store 1,
\* store 1 being served on a route measured with 0 km for the missing legs
C10_SolvedWithDefaults ==
    /\ Returned
    /\ 1 \notin DOMAIN distance_matrix
    /\ \E route \in SeqToSet(solution[1].routes) :
          /\ get_store_ids(route) = <<1>>
          /\ route.total_distance_km = 0

-----------------------------------------------------------------------------
(* Properties of the weekly planner, under SpecWeek *)

ServedOn(s, d) ==
    daily_solutions[d] # <<>> /\ TimesServed(daily_solutions[d][1].routes, s) > 0

\* C2 (one-day service): in the MultiDaySolution optimize_week returns,
\* every store is in the routes of at most one day, and that day is the day
\* the planner assigned the store to.
C2_OneDayService ==
    wpc = "done" =>
        \A s \in StoreIds :
            /\ Cardinality({d \in SeqToSet(WEEKDAYS) : ServedOn(s, d)}) <= 1
            /\ \A d \in SeqToSet(WEEKDAYS) :
                   ServedOn(s, d) => s \in SeqToSet(day_assignments[d])

\* a returned week with a store in the routes of a day it was not assigned
\* to, as well as in those of its own day
C2_ServedOnAnotherDay ==
    /\ wpc = "done"
    /\ \E s \in StoreIds : \E d, e \in SeqToSet(WEEKDAYS) :
          /\ d # e
          /\ s \in SeqToSet(day_assignments[d])
          /\ ServedOn(s, d)
          /\ ServedOn(s, e)

\* the number of times store s is in the list of day d
TimesAssigned(s, d) ==
    Cardinality({k \in 1..Len(day_assignments[d]) : day_assignments[d][k] = s})

\* day_loads is the demand of the stores in the lists, and a store is in the
\* list of one day at most, once, a day it does not exclude
LoadsMatchAssignments ==
    /\ \A d \in SeqToSet(WEEKDAYS) :
           day_loads[d] =
               SeqSum([k \in 1..Len(day_assignments[d]) |->
                          stores[day_assignments[d][k]].demand_cbm])
    /\ \A s \in StoreIds :
           /\ SeqSum([k \in 1..Len(WEEKDAYS) |-> TimesAssigned(s, WEEKDAYS[k])]) <= 1
           /\ \A d \in SeqToSet(WEEKDAYS) :
                  TimesAssigned(s, d) > 0 => d \notin stores[s].excluded_days

\* C30 (planner day-load bound): all through _assign_stores_to_days the load
\* of every weekday is the sum of the demands of the stores assigned to it,
\* every assigned store is on exactly one day, which it does not exclude,
\* and no day's load exceeds the largest vehicle capacity times the number
\* of vehicles.
C30_DayLoadBound ==
    /\ LoadsMatchAssignments
    /\ \A d \in SeqToSet(WEEKDAYS) :
           day_loads[d] <= max_capacity * Len(vehicles)

\* the assignment is over: the three stores that accept Monday only are all
\* on Monday, with 12 cbm for the one vehicle of 10
C30_MondayOverFleet ==
    /\ wpc # "idle"
    /\ assign_k > NStores
    /\ Len(vehicles) = 1
    /\ Len(day_assignments["Mon"]) = NStores
    /\ day_loads["Mon"] = 12
    /\ max_capacity = 10

\* the number of stores the planner assigned to a day
Assignments ==
    SeqSum([k \in 1..Len(WEEKDAYS) |-> Len(day_assignments[WEEKDAYS[k]])])

\* C13 (weekly statistics): in the statistics optimize_week returns,
\* baseline_trips is the number of stores, optimized_trips is the number of
\* assignments, and trip_reduction_percent is 0, also when a store excludes
\* all five weekdays.
C13_WeeklyStatistics ==
    wpc = "done" =>
        /\ consolidation_stats[1].baseline_trips = Cardinality(StoreIds)
        /\ consolidation_stats[1].optimized_trips = Assignments
        /\ consolidation_stats[1].trip_reduction_percent = 0

\* a returned week with a store that excludes every weekday: two of three
\* stores assigned, and a trip reduction of 33.33 percent reported
C13_ReductionReported ==
    /\ wpc = "done"
    /\ \E s \in StoreIds : SeqToSet(WEEKDAYS) \subseteq stores[s].excluded_days
    /\ consolidation_stats[1].baseline_trips = 3
    /\ consolidation_stats[1].optimized_trips = 2
    /\ consolidation_stats[1].trip_reduction_percent = 3333

====
